---------------------------- MODULE Spec2Model ----------------------------
(***************************************************************************)
(* A model of the bel expression engine (src/bel): the value algebra of    *)
(* objects.rs, the scoped Context of context.rs and the tree-walking       *)
(* evaluator Value::resolve.                                               *)
(*                                                                         *)
(* Scaling.  TLC's integers are 32 bits wide, so i64 is modelled as an     *)
(* IntBits-bit two's complement integer and f64 as a binary floating       *)
(* point format with MantBits significant bits whose unit in the last      *)
(* place is never finer than 1/2; a finite float is held as the integer    *)
(* n with value n/2.  MantBits < IntBits - 1, as 53 < 63, so `i as f64`    *)
(* rounds for large i as it does in the program.                           *)
(*                                                                         *)
(* Strings are sequences of code points; bytes are sequences of 0..255.    *)
(* A list or map carries `id`, the identity of its Arc allocation: two     *)
(* values with the same id > 0 are clones of one Arc, id 0 is an           *)
(* allocation shared with nothing else (a container the evaluator has      *)
(* just built).  A map holds its entries in the iteration order of its     *)
(* HashMap.                                                                *)
(***************************************************************************)
EXTENDS Integers, Sequences, FiniteSets, TLC

\* Width of the model's signed integer (i64 in the program).
IntBits == 4

MantBits == IntBits - 2
MinInt == -(2 ^ (IntBits - 1))
MaxInt == (2 ^ (IntBits - 1)) - 1
Ints == MinInt .. MaxInt
\* Largest finite float, in halves: the float nearest to i64::MAX.
FloatMaxN == 2 ^ IntBits

None == << >>
Some(x) == << x >>
IsSome(o) == Len(o) = 1
Unwrap(o) == o[1]

Abs(x) == IF x < 0 THEN -x ELSE x
Sign(x) == IF x < 0 THEN -1 ELSE 1

-----------------------------------------------------------------------------
(* Value and Key (objects.rs) *)

IntV(i) == [t |-> "Int", i |-> i]
FloatV(c, n) == [t |-> "Float", c |-> c, n |-> n]
StringV(s) == [t |-> "String", s |-> s]
BytesV(by) == [t |-> "Bytes", by |-> by]
BoolV(b) == [t |-> "Bool", b |-> b]
NullV == [t |-> "Null"]
ListV(id, items) == [t |-> "List", id |-> id, items |-> items]
MapV(id, entries) == [t |-> "Map", id |-> id, entries |-> entries]
FunctionV(name, recv) == [t |-> "Function", name |-> name, recv |-> recv]
DurationV(d) == [t |-> "Duration", d |-> d]
TimestampV(ts) == [t |-> "Timestamp", ts |-> ts]
RegexV(re) == [t |-> "Regex", re |-> re]
IpV(ip) == [t |-> "Ip", ip |-> ip]

NaN == FloatV("nan", 0)
PosInf == FloatV("inf", 0)
NegInf == FloatV("ninf", 0)
Fin(n) == FloatV("fin", n)

Entry(k, v) == [key |-> k, val |-> v]

\* ResolveResult: Ok(value), Err(ExecutionError), or the process aborting.
Ok(v) == [k |-> "ok", v |-> v]
Err(e) == [k |-> "err", e |-> e]
Abort(why) == [k |-> "abort", why |-> why]
IsOk(r) == r.k = "ok"

\* ExecutionError variants (lib.rs)
Overflow(op, l, r) == [kind |-> "Overflow", op |-> op, l |-> l, r |-> r]
DivisionByZero(l) == [kind |-> "DivisionByZero", l |-> l]
RemainderByZero(l) == [kind |-> "RemainderByZero", l |-> l]
UnsupportedBinaryOperator(op, l, r) ==
    [kind |-> "UnsupportedBinaryOperator", op |-> op, l |-> l, r |-> r]
UnsupportedUnaryOperator(op, l) == [kind |-> "UnsupportedUnaryOperator", op |-> op, l |-> l]
ValuesNotComparable(l, r) == [kind |-> "ValuesNotComparable", l |-> l, r |-> r]
NoSuchOverload == [kind |-> "NoSuchOverload"]
NoSuchKey(name) == [kind |-> "NoSuchKey", field |-> name]
UndeclaredReference(name) == [kind |-> "UndeclaredReference", name |-> name]
UnsupportedKeyType(v) == [kind |-> "UnsupportedKeyType", l |-> v]
UnsupportedMapIndex(v) == [kind |-> "UnsupportedMapIndex", l |-> v]
UnsupportedListIndex(v) == [kind |-> "UnsupportedListIndex", l |-> v]
UnsupportedIndex(v, i) == [kind |-> "UnsupportedIndex", l |-> v, r |-> i]
UnexpectedType(got, want) == [kind |-> "UnexpectedType", got |-> got, want |-> want]
MissingArgumentOrTarget == [kind |-> "MissingArgumentOrTarget"]
InvalidArgumentCount(expected, actual) ==
    [kind |-> "InvalidArgumentCount", expected |-> expected, actual |-> actual]
FunctionError(function) == [kind |-> "FunctionError", function |-> function]

\* A conversion that takes Null for a key as well.
TryIntoKeyOrNull(v) == IF v.t \in {"Int", "String", "Bool", "Null"} THEN Some(v) ELSE None
\* impl TryInto<Key> for Value
TryIntoKey(v) == IF v.t \in {"Int", "String", "Bool"} THEN Some(v) ELSE None

-----------------------------------------------------------------------------
(* Machine arithmetic *)

\* Two's complement wrap of x to IntBits bits.
Wrap(x) == ((x - MinInt) % (2 ^ IntBits)) + MinInt

\* Rust's `/` and `%` truncate toward zero.
TruncDiv(l, r) == Sign(l) * Sign(r) * (Abs(l) \div Abs(r))
TruncRem(l, r) == l - r * TruncDiv(l, r)

wrapping_add(l, r) == Some(Wrap(l + r))
checked_add(l, r) == IF Wrap(l + r) = l + r THEN Some(l + r) ELSE None

wrapping_sub(l, r) == Some(Wrap(l - r))
checked_sub(l, r) == IF Wrap(l - r) = l - r THEN Some(l - r) ELSE None

wrapping_mul(l, r) == Some(Wrap(l * r))
checked_mul(l, r) == IF Wrap(l * r) = l * r THEN Some(l * r) ELSE None

\* i64::checked_div / checked_rem: None when rhs = 0 or on MIN / -1.
checked_div(l, r) ==
    IF r = 0 \/ (l = MinInt /\ r = -1) THEN None ELSE Some(TruncDiv(l, r))
checked_rem(l, r) ==
    IF r = 0 \/ (l = MinInt /\ r = -1) THEN None ELSE Some(TruncRem(l, r))

-----------------------------------------------------------------------------
(* Floating point *)

\* The float nearest to num/den halves (den > 0), ties to even; beyond the
\* largest finite float the result is an infinity.
RECURSIVE ScaleFor(_, _, _)
ScaleFor(a, den, e) ==
    IF a < (2 ^ MantBits) * (2 ^ e) * den THEN e ELSE ScaleFor(a, den, e + 1)

FRound(num, den) ==
    LET a == Abs(num)
        e == ScaleFor(a, den, 0)
        u == den * (2 ^ e)
        q == a \div u
        r == a - q * u
        up == (2 * r > u) \/ (2 * r = u /\ q % 2 = 1)
        n == (IF up THEN q + 1 ELSE q) * (2 ^ e)
    IN  IF n > FloatMaxN
          THEN (IF num < 0 THEN NegInf ELSE PosInf)
          ELSE Fin(Sign(num) * n)

\* `i as f64`
IntToFloat(i) == FRound(2 * i, 1)

IsNaN(f) == f.c = "nan"
IsInf(f) == f.c \in {"inf", "ninf"}
FSign(f) == CASE f.c = "inf" -> 1
              [] f.c = "ninf" -> -1
              [] OTHER -> IF f.n < 0 THEN -1 ELSE IF f.n > 0 THEN 1 ELSE 0
InfOf(s) == IF s < 0 THEN NegInf ELSE PosInf

FNeg(f) == CASE f.c = "nan" -> NaN
             [] f.c = "inf" -> NegInf
             [] f.c = "ninf" -> PosInf
             [] OTHER -> Fin(-f.n)

FAdd(a, b) ==
    CASE IsNaN(a) \/ IsNaN(b) -> NaN
      [] IsInf(a) /\ IsInf(b) -> IF a.c = b.c THEN a ELSE NaN
      [] IsInf(a) -> a
      [] IsInf(b) -> b
      [] OTHER -> FRound(a.n + b.n, 1)

FSub(a, b) == FAdd(a, FNeg(b))

FMul(a, b) ==
    CASE IsNaN(a) \/ IsNaN(b) -> NaN
      [] IsInf(a) \/ IsInf(b) ->
            IF FSign(a) = 0 \/ FSign(b) = 0 THEN NaN ELSE InfOf(FSign(a) * FSign(b))
      [] OTHER -> FRound(a.n * b.n, 2)

FDiv(a, b) ==
    CASE IsNaN(a) \/ IsNaN(b) -> NaN
      [] IsInf(a) /\ IsInf(b) -> NaN
      [] IsInf(a) -> InfOf(FSign(a) * (IF FSign(b) < 0 THEN -1 ELSE 1))
      [] IsInf(b) -> Fin(0)
      [] b.n = 0 -> IF a.n = 0 THEN NaN ELSE InfOf(FSign(a))
      [] OTHER -> FRound(2 * a.n * Sign(b.n), Abs(b.n))

\* Position of a non-NaN float on the extended real line, in halves.
FRank(f) == CASE f.c = "inf" -> FloatMaxN + 1
              [] f.c = "ninf" -> -(FloatMaxN + 1)
              [] OTHER -> f.n

\* f64::partial_cmp: None when either side is NaN.
FCmp(a, b) ==
    IF IsNaN(a) \/ IsNaN(b)
      THEN None
      ELSE Some(IF FRank(a) < FRank(b) THEN "Less"
                ELSE IF FRank(a) > FRank(b) THEN "Greater" ELSE "Equal")

\* f64 ==
FEq(a, b) == FCmp(a, b) = Some("Equal")

-----------------------------------------------------------------------------
(* Time (chrono), counted in whole years *)

\* Years of MIN_TIMESTAMP and MAX_TIMESTAMP, the bounds of a CEL timestamp.
MIN_TIMESTAMP == 1
MAX_TIMESTAMP == 9999
\* Years chrono's DateTime can represent, a wider range than the CEL one.
ChronoMinYear == -262143
ChronoMaxYear == 262142
\* Largest chrono::Duration (i64::MAX milliseconds), in years.
DurationMax == 292277024

duration_checked_add(l, r) == IF Abs(l + r) <= DurationMax THEN Some(l + r) ELSE None
duration_checked_sub(l, r) == IF Abs(l - r) <= DurationMax THEN Some(l - r) ELSE None

\* DateTime::checked_add_signed / checked_sub_signed
checked_add_signed(ts, d) ==
    IF ts + d >= ChronoMinYear /\ ts + d <= ChronoMaxYear THEN Some(ts + d) ELSE None
checked_sub_signed(ts, d) == checked_add_signed(ts, -d)

\* fn checked_op(op, lhs, rhs)
checked_op(op, lhs, rhs) ==
    LET result == IF op = "add" THEN checked_add_signed(lhs, rhs)
                                ELSE checked_sub_signed(lhs, rhs)
    IN  IF ~IsSome(result)
          THEN Err(Overflow(op, TimestampV(lhs), DurationV(rhs)))
          ELSE IF Unwrap(result) > MAX_TIMESTAMP \/ Unwrap(result) < MIN_TIMESTAMP
                 THEN Err(Overflow(op, TimestampV(lhs), DurationV(rhs)))
                 ELSE Ok(TimestampV(Unwrap(result)))

-----------------------------------------------------------------------------
(* Equality and order of values *)

\* Ordering of two sequences of integers, lexicographic (String::cmp).
RECURSIVE SeqCmp(_, _)
SeqCmp(a, b) ==
    CASE Len(a) = 0 /\ Len(b) = 0 -> "Equal"
      [] Len(a) = 0 -> "Less"
      [] Len(b) = 0 -> "Greater"
      [] a[1] < b[1] -> "Less"
      [] a[1] > b[1] -> "Greater"
      [] OTHER -> SeqCmp(Tail(a), Tail(b))

IntCmp(a, b) == IF a < b THEN "Less" ELSE IF a > b THEN "Greater" ELSE "Equal"

\* Arc::ptr_eq: both handles are clones of one shared allocation.
PtrEq(a, b) == a.id > 0 /\ a.id = b.id

\* Map::get
MapGet(entries, key) ==
    LET hits == {i \in 1 .. Len(entries) : entries[i].key = key}
    IN  IF hits = {} THEN None ELSE Some(entries[CHOOSE i \in hits : TRUE].val)

\* impl PartialEq for Value.  Arc<T> with T: Eq compares equal at once when the
\* two handles point to one allocation (Value is declared Eq).
RECURSIVE ValueEq(_, _)
ValueEq(a, b) ==
    CASE a.t = "Map" /\ b.t = "Map" ->
            \/ PtrEq(a, b)
            \/ /\ Len(a.entries) = Len(b.entries)
               /\ \A i \in 1 .. Len(a.entries) :
                    LET o == MapGet(b.entries, a.entries[i].key)
                    IN  IsSome(o) /\ ValueEq(a.entries[i].val, Unwrap(o))
      [] a.t = "List" /\ b.t = "List" ->
            \/ PtrEq(a, b)
            \/ /\ Len(a.items) = Len(b.items)
               /\ \A i \in 1 .. Len(a.items) : ValueEq(a.items[i], b.items[i])
      [] a.t = "Function" /\ b.t = "Function" ->
            /\ a.name = b.name
            /\ Len(a.recv) = Len(b.recv)
            /\ (IsSome(a.recv) => ValueEq(Unwrap(a.recv), Unwrap(b.recv)))
      [] a.t = "Int" /\ b.t = "Int" -> a.i = b.i
      [] a.t = "Float" /\ b.t = "Float" -> FEq(a, b)
      [] a.t = "String" /\ b.t = "String" -> a.s = b.s
      [] a.t = "Bytes" /\ b.t = "Bytes" -> a.by = b.by
      [] a.t = "Bool" /\ b.t = "Bool" -> a.b = b.b
      [] a.t = "Null" /\ b.t = "Null" -> TRUE
      [] a.t = "Duration" /\ b.t = "Duration" -> a.d = b.d
      [] a.t = "Timestamp" /\ b.t = "Timestamp" -> a.ts = b.ts
      [] a.t = "Int" /\ b.t = "Float" -> FEq(IntToFloat(a.i), b)
      [] a.t = "Float" /\ b.t = "Int" -> FEq(a, IntToFloat(b.i))
      [] a.t = "Ip" /\ b.t = "Ip" -> a.ip = b.ip
      [] OTHER -> FALSE

\* The (Float, Int) arm with its operands the wrong way round.
partial_cmp_float_int_swapped(a, b) == FCmp(IntToFloat(b.i), a)
partial_cmp_float_int(a, b) == FCmp(a, IntToFloat(b.i))

\* impl PartialOrd for Value
partial_cmp(a, b) ==
    CASE a.t = "Int" /\ b.t = "Int" -> Some(IntCmp(a.i, b.i))
      [] a.t = "Float" /\ b.t = "Float" -> FCmp(a, b)
      [] a.t = "String" /\ b.t = "String" -> Some(SeqCmp(a.s, b.s))
      [] a.t = "Bool" /\ b.t = "Bool" ->
            Some(IntCmp(IF a.b THEN 1 ELSE 0, IF b.b THEN 1 ELSE 0))
      [] a.t = "Null" /\ b.t = "Null" -> Some("Equal")
      [] a.t = "Duration" /\ b.t = "Duration" -> Some(IntCmp(a.d, b.d))
      [] a.t = "Timestamp" /\ b.t = "Timestamp" -> Some(IntCmp(a.ts, b.ts))
      [] a.t = "Int" /\ b.t = "Float" -> FCmp(IntToFloat(a.i), b)
      [] a.t = "Float" /\ b.t = "Int" -> partial_cmp_float_int(a, b)
      [] a.t = "Ip" /\ b.t = "Ip" -> Some(IntCmp(a.ip, b.ip))
      [] OTHER -> None

-----------------------------------------------------------------------------
(* Arithmetic on values *)

\* Some(v) -> Ok(Value::Int(v)); None -> Err(Overflow(op, l, r))
IntResult(o, op, l, r) ==
    IF IsSome(o) THEN Ok(IntV(Unwrap(o))) ELSE Err(Overflow(op, IntV(l), IntV(r)))

\* An addition that wraps instead of reporting the overflow.
add_int_wrapping(l, r) == IntResult(wrapping_add(l, r), "add", l, r)
add_int(l, r) == IntResult(checked_add(l, r), "add", l, r)

sub_int(l, r) == IntResult(checked_sub(l, r), "sub", l, r)

mul_int(l, r) == IntResult(checked_mul(l, r), "mul", l, r)

div_int(l, r) ==
    IF r = 0 THEN Err(DivisionByZero(IntV(l)))
             ELSE IntResult(checked_div(l, r), "div", l, r)

rem_int(l, r) ==
    IF r = 0 THEN Err(RemainderByZero(IntV(l)))
             ELSE IntResult(checked_rem(l, r), "rem", l, r)

\* impl ops::Add<Value> for Value.  The list or string that results is held by
\* the result alone: Arc::make_mut appends in place only to an unshared `l`
\* and copies a shared one.
Add(l, r) ==
    CASE l.t = "Int" /\ r.t = "Int" -> add_int(l.i, r.i)
      [] l.t = "Float" /\ r.t = "Float" -> Ok(FAdd(l, r))
      [] l.t = "List" /\ r.t = "List" -> Ok(ListV(0, l.items \o r.items))
      [] l.t = "String" /\ r.t = "String" -> Ok(StringV(l.s \o r.s))
      [] l.t = "Duration" /\ r.t = "Duration" ->
            LET o == duration_checked_add(l.d, r.d)
            IN  IF IsSome(o) THEN Ok(DurationV(Unwrap(o))) ELSE Err(Overflow("add", l, r))
      [] l.t = "Timestamp" /\ r.t = "Duration" -> checked_op("add", l.ts, r.d)
      [] l.t = "Duration" /\ r.t = "Timestamp" ->
            LET o == checked_add_signed(r.ts, l.d)
            IN  IF IsSome(o) THEN Ok(TimestampV(Unwrap(o))) ELSE Err(Overflow("add", l, r))
      [] OTHER -> Err(UnsupportedBinaryOperator("add", l, r))

\* impl ops::Sub<Value> for Value
Sub(l, r) ==
    CASE l.t = "Int" /\ r.t = "Int" -> sub_int(l.i, r.i)
      [] l.t = "Float" /\ r.t = "Float" -> Ok(FSub(l, r))
      [] l.t = "Duration" /\ r.t = "Duration" ->
            LET o == duration_checked_sub(l.d, r.d)
            IN  IF IsSome(o) THEN Ok(DurationV(Unwrap(o))) ELSE Err(Overflow("sub", l, r))
      [] l.t = "Timestamp" /\ r.t = "Duration" -> checked_op("sub", l.ts, r.d)
      [] l.t = "Timestamp" /\ r.t = "Timestamp" -> Ok(DurationV(l.ts - r.ts))
      [] OTHER -> Err(UnsupportedBinaryOperator("sub", l, r))

\* impl ops::Div<Value> for Value
Div(l, r) ==
    CASE l.t = "Int" /\ r.t = "Int" -> div_int(l.i, r.i)
      [] l.t = "Float" /\ r.t = "Float" -> Ok(FDiv(l, r))
      [] OTHER -> Err(UnsupportedBinaryOperator("div", l, r))

\* impl ops::Mul<Value> for Value
Mul(l, r) ==
    CASE l.t = "Int" /\ r.t = "Int" -> mul_int(l.i, r.i)
      [] l.t = "Float" /\ r.t = "Float" -> Ok(FMul(l, r))
      [] OTHER -> Err(UnsupportedBinaryOperator("mul", l, r))

\* impl ops::Rem<Value> for Value
Rem(l, r) ==
    CASE l.t = "Int" /\ r.t = "Int" -> rem_int(l.i, r.i)
      [] OTHER -> Err(UnsupportedBinaryOperator("rem", l, r))

\* Value::to_bool
to_bool(v) == IF v.t = "Bool" THEN Ok(v) ELSE Err(NoSuchOverload)

-----------------------------------------------------------------------------
(* Expressions (the AST the evaluator walks) *)

Literal(val) == [e |-> "Literal", val |-> val]
Ident(name) == [e |-> "Ident", name |-> name]
Call(func_name, target, args) ==
    [e |-> "Call", func_name |-> func_name, target |-> target, args |-> args]
Select(operand, field, test) ==
    [e |-> "Select", operand |-> operand, field |-> field, test |-> test]
ListExpr(elements) == [e |-> "List", elements |-> elements]
MapExpr(entries) == [e |-> "Map", entries |-> entries]
MapEntry(key, value) == [key |-> key, value |-> value]
Comprehension(iter_range, iter_var, accu_var, accu_init, loop_cond, loop_step, result) ==
    [e |-> "Comprehension", iter_range |-> iter_range, iter_var |-> iter_var,
     accu_var |-> accu_var, accu_init |-> accu_init, loop_cond |-> loop_cond,
     loop_step |-> loop_step, result |-> result]

\* The operators that take two evaluated operands.
StrictBinaryOperators ==
    {"_+_", "_-_", "_/_", "_*_", "_%_", "_==_", "_!=_", "_<_", "_<=_", "_>_", "_>=_", "_[_]"}

\* Shorthands for calls without a receiver.
Call1(name, a) == Call(name, None, << a >>)
Call2(name, a, b) == Call(name, None, << a, b >>)
Call3(name, a, b, c) == Call(name, None, << a, b, c >>)
Method(name, target, args) == Call(name, Some(target), args)

-----------------------------------------------------------------------------
(* Context (context.rs): a chain of scopes, the root first.  The innermost  *)
(* scope, the last of the chain, is the context itself; the chain without  *)
(* it is its parent.                                                       *)

VarNames == {"lhs", "rhs", "x", "y", "m", "xs", "@result"}
NoVariables == [n \in VarNames |-> None]

\* The functions Context::default registers that the model covers.
DefaultFunctions == {"contains", "length", "starts_with"}

\* A function of the host's own, as add_function takes it.
HostFunction == "host"

\* Context::Root.  overflow_checks is the build's setting (on in a debug build);
\* hash_order stands for the hasher state that fixes the iteration order of the
\* maps built during the evaluation.
RootContext(variables, overflow_checks, hash_order) ==
    [functions |-> [n \in DefaultFunctions |-> n], scopes |-> << variables >>,
     overflow_checks |-> overflow_checks, hash_order |-> hash_order]

\* Context::new_inner_scope
new_inner_scope(ctx) == [ctx EXCEPT !.scopes = Append(@, NoVariables)]

\* A write that lands in the root scope instead of the context's own.
add_variable_to_root(ctx, name, value) ==
    [ctx EXCEPT !.scopes[1][name] = Some(value)]
\* Context::add_variable_from_value, and add_variable with a Value
add_variable_from_value(ctx, name, value) ==
    [ctx EXCEPT !.scopes[Len(ctx.scopes)][name] = Some(value)]

\* Lookup that stops at the root scope's binding first.
RECURSIVE lookup_root_first(_, _, _)
lookup_root_first(scopes, d, name) ==
    IF IsSome(scopes[1][name]) THEN Ok(Unwrap(scopes[1][name]))
    ELSE IF IsSome(scopes[d][name]) THEN Ok(Unwrap(scopes[d][name]))
    ELSE IF d = 1 THEN Err(UndeclaredReference(name))
    ELSE lookup_root_first(scopes, d - 1, name)
\* Context::get_variable on the scope at depth d of the chain
RECURSIVE lookup(_, _, _)
lookup(scopes, d, name) ==
    IF IsSome(scopes[d][name])
      THEN Ok(Unwrap(scopes[d][name]))
      ELSE IF d = 1
             THEN Err(UndeclaredReference(name))
             ELSE LET p == lookup(scopes, d - 1, name)
                  IN  IF IsOk(p) THEN p ELSE Err(UndeclaredReference(name))

get_variable(ctx, name) == lookup(ctx.scopes, Len(ctx.scopes), name)

\* An add_function that a child passes on to the root's registry.
add_function_from_any_scope(ctx, name, function) ==
    [ctx EXCEPT !.functions = (name :> function) @@ @]
\* Context::add_function: only a root context has a registry to add to; a
\* name that is registered already takes the new function.
add_function(ctx, name, function) ==
    IF Len(ctx.scopes) = 1 THEN [ctx EXCEPT !.functions = (name :> function) @@ @] ELSE ctx

\* FunctionRegistry::get
RegistryGet(functions, name) ==
    IF name \in DOMAIN functions THEN Some(functions[name]) ELSE None

\* Context::get_function on the scope at depth d of the chain: a child asks
\* its parent, the root its registry.
RECURSIVE get_function_from(_, _, _)
get_function_from(ctx, d, name) ==
    IF d = 1 THEN RegistryGet(ctx.functions, name) ELSE get_function_from(ctx, d - 1, name)

get_function(ctx, name) == get_function_from(ctx, Len(ctx.scopes), name)

-----------------------------------------------------------------------------
(* Strings as UTF-8 *)

Utf8Len(cp) == IF cp < 128 THEN 1 ELSE IF cp < 2048 THEN 2 ELSE IF cp < 65536 THEN 3 ELSE 4

RECURSIVE ByteLen(_)
ByteLen(s) == IF Len(s) = 0 THEN 0 ELSE Utf8Len(s[1]) + ByteLen(Tail(s))

\* Byte offset at which the character after the first k characters starts.
ByteOffset(s, k) == ByteLen(SubSeq(s, 1, k))

\* str::get(a..b): the characters between byte offsets a and b, when both lie
\* on character boundaries and a <= b <= len.
StrGet(s, a, b) ==
    LET starts == {k \in 0 .. Len(s) : ByteOffset(s, k) = a}
        ends == {k \in 0 .. Len(s) : ByteOffset(s, k) = b}
    IN  IF a <= b /\ starts # {} /\ ends # {}
          THEN Some(SubSeq(s, (CHOOSE k \in starts : TRUE) + 1, CHOOSE k \in ends : TRUE))
          ELSE None

\* `i as usize`: a negative i becomes a huge unsigned number.
AsUsize(i) == IF i < 0 THEN i + 2 ^ IntBits ELSE i

IsPrefix(p, s) == Len(p) <= Len(s) /\ SubSeq(s, 1, Len(p)) = p
IsInfix(p, s) == \E k \in 0 .. Len(s) - Len(p) : SubSeq(s, k + 1, k + Len(p)) = p

-----------------------------------------------------------------------------
(* The evaluator (objects.rs, Value::resolve) *)

\* Decimal digits of a non-negative integer, as code points.
RECURSIVE Digits(_)
Digits(n) == IF n < 10 THEN << 48 + n >> ELSE Append(Digits(n \div 10), 48 + (n % 10))

\* impl Display for Key
KeyToString(key) ==
    CASE key.t = "Int" -> IF key.i < 0 THEN << 45 >> \o Digits(-key.i) ELSE Digits(key.i)
      [] key.t = "Bool" -> IF key.b THEN << 116, 114, 117, 101 >> ELSE << 102, 97, 108, 115, 101 >>
      [] OTHER -> key.s

\* Comparison operators that answer false when there is no ordering.
CompareUnorderedIsFalse(op, left, right) ==
    LET o == partial_cmp(left, right)
    IN  IF ~IsSome(o)
          THEN Ok(BoolV(FALSE))
          ELSE Ok(BoolV(CASE op = "_<_" -> Unwrap(o) = "Less"
                          [] op = "_<=_" -> Unwrap(o) # "Greater"
                          [] op = "_>_" -> Unwrap(o) = "Greater"
                          [] OTHER -> Unwrap(o) # "Less"))
\* The comparison operators: an absent ordering is ValuesNotComparable.
Compare(op, left, right) ==
    LET o == partial_cmp(left, right)
    IN  IF ~IsSome(o)
          THEN Err(ValuesNotComparable(left, right))
          ELSE Ok(BoolV(CASE op = "_<_" -> Unwrap(o) = "Less"
                          [] op = "_<=_" -> Unwrap(o) # "Greater"
                          [] op = "_>_" -> Unwrap(o) = "Greater"
                          [] OTHER -> Unwrap(o) # "Less"))

\* An index that answers Null to every pairing it has no element for.
IndexOrNull(value, idx, overflow_checks) ==
    CASE value.t = "List" /\ idx.t = "Int" ->
            IF AsUsize(idx.i) < Len(value.items)
              THEN Ok(value.items[AsUsize(idx.i) + 1]) ELSE Ok(NullV)
      [] value.t = "Map" /\ idx.t \in {"String", "Bool", "Int"} ->
            LET got == MapGet(value.entries, idx)
            IN  IF IsSome(got) THEN Ok(Unwrap(got)) ELSE Ok(NullV)
      [] OTHER -> Ok(NullV)
\* An index that counts a negative Int from the end of the list.
IndexFromEnd(value, idx, overflow_checks) ==
    CASE value.t = "List" /\ idx.t = "Int" ->
            LET at == IF idx.i < 0 THEN Len(value.items) + idx.i ELSE idx.i
            IN  IF at >= 0 /\ at < Len(value.items)
                  THEN Ok(value.items[at + 1]) ELSE Ok(NullV)
      [] value.t = "Map" /\ idx.t \in {"String", "Bool", "Int"} ->
            LET got == MapGet(value.entries, idx)
            IN  IF IsSome(got) THEN Ok(Unwrap(got)) ELSE Ok(NullV)
      [] OTHER -> Err(UnsupportedIndex(value, idx))
\* operators::INDEX
Index(value, idx, overflow_checks) ==
    CASE value.t = "List" /\ idx.t = "Int" ->
            IF AsUsize(idx.i) < Len(value.items)
              THEN Ok(value.items[AsUsize(idx.i) + 1]) ELSE Ok(NullV)
      [] value.t = "String" /\ idx.t = "Int" ->
            IF idx.i = MaxInt /\ overflow_checks
              THEN Abort("attempt to add with overflow")
              ELSE LET got == StrGet(value.s, AsUsize(idx.i), AsUsize(Wrap(idx.i + 1)))
                   IN  IF IsSome(got) THEN Ok(StringV(Unwrap(got))) ELSE Ok(NullV)
      [] value.t = "Map" /\ idx.t \in {"String", "Bool", "Int"} ->
            LET got == MapGet(value.entries, idx)
            IN  IF IsSome(got) THEN Ok(Unwrap(got)) ELSE Ok(NullV)
      [] value.t = "Map" -> Err(UnsupportedMapIndex(idx))
      [] value.t = "List" -> Err(UnsupportedListIndex(idx))
      [] OTHER -> Err(UnsupportedIndex(value, idx))

\* The operators applied to two evaluated operands.
BinaryOperator(name, l, r, overflow_checks) ==
    CASE name = "_+_" -> Add(l, r)
      [] name = "_-_" -> Sub(l, r)
      [] name = "_/_" -> Div(l, r)
      [] name = "_*_" -> Mul(l, r)
      [] name = "_%_" -> Rem(l, r)
      [] name = "_==_" -> Ok(BoolV(ValueEq(l, r)))
      [] name = "_!=_" -> Ok(BoolV(~ValueEq(l, r)))
      [] name \in {"_<_", "_<=_", "_>_", "_>=_"} -> Compare(name, l, r)
      [] OTHER -> Index(l, r, overflow_checks)

\* An `&&` that evaluates both operands before it looks at the left one.
LogicalAndEager(left, right) ==
    IF ~IsOk(left) THEN left
    ELSE IF ~IsOk(right) THEN right
    ELSE IF ~IsOk(to_bool(left.v)) THEN to_bool(left.v)
    ELSE IF ~IsOk(to_bool(right.v)) THEN to_bool(right.v)
    ELSE Ok(BoolV(left.v.b /\ right.v.b))
\* operators::LOGICAL_AND; `right` is the outcome the right operand has when
\* it is evaluated.
LogicalAnd(left, right) ==
    IF ~IsOk(left) THEN left
    ELSE IF ~IsOk(to_bool(left.v)) THEN to_bool(left.v)
    ELSE IF ~left.v.b THEN Ok(BoolV(FALSE))
    ELSE IF ~IsOk(right) THEN right
    ELSE IF ~IsOk(to_bool(right.v)) THEN to_bool(right.v)
    ELSE Ok(BoolV(right.v.b))

\* operators::LOGICAL_OR
LogicalOr(left, right) ==
    IF ~IsOk(left) THEN left
    ELSE IF ~IsOk(to_bool(left.v)) THEN to_bool(left.v)
    ELSE IF left.v.b THEN Ok(left.v)
    ELSE right

\* operators::CONDITIONAL
Conditional(cond, then, else) ==
    IF ~IsOk(cond) THEN cond
    ELSE IF ~IsOk(to_bool(cond.v)) THEN to_bool(cond.v)
    ELSE IF cond.v.b THEN then ELSE else

\* operators::LOGICAL_NOT
LogicalNot(v) == IF ~IsOk(to_bool(v)) THEN to_bool(v) ELSE Ok(BoolV(~v.b))

\* operators::NEGATE.  `-i` on the minimum Int overflows: the build aborts
\* with overflow checks and wraps without them.
Negate(v, overflow_checks) ==
    CASE v.t = "Int" ->
            IF v.i = MinInt
              THEN (IF overflow_checks THEN Abort("attempt to negate with overflow")
                                       ELSE Ok(IntV(Wrap(-v.i))))
              ELSE Ok(IntV(-v.i))
      [] v.t = "Float" -> Ok(FNeg(v))
      [] OTHER -> Err(UnsupportedUnaryOperator("minus", v))

\* operators::NOT_STRICTLY_FALSE
NotStrictlyFalse(v) == IF v.t = "Bool" THEN Ok(v) ELSE Ok(BoolV(TRUE))

\* Value::member
member(v, name) ==
    LET child == IF v.t = "Map" THEN MapGet(v.entries, StringV(name)) ELSE None
    IN  IF IsSome(child) THEN Ok(Unwrap(child)) ELSE Err(NoSuchKey(name))

\* A test that also asks for the stored value not to be Null.
SelectTestNotNull(left, field) ==
    IF left.t = "Map"
      THEN Ok(BoolV(\E i \in 1 .. Len(left.entries) :
                       /\ KeyToString(left.entries[i].key) = field
                       /\ left.entries[i].val # NullV))
      ELSE Ok(BoolV(FALSE))
\* Expr::Select with test = true
SelectTest(left, field) ==
    IF left.t = "Map"
      THEN Ok(BoolV(\E i \in 1 .. Len(left.entries) : KeyToString(left.entries[i].key) = field))
      ELSE Ok(BoolV(FALSE))

\* HashMap::insert: a key that is present keeps its slot and takes the value.
MapInsert(entries, key, val) ==
    IF \E i \in 1 .. Len(entries) : entries[i].key = key
      THEN [i \in 1 .. Len(entries) |->
              IF entries[i].key = key THEN Entry(key, val) ELSE entries[i]]
      ELSE Append(entries, Entry(key, val))

Reverse(seq) == [i \in 1 .. Len(seq) |-> seq[Len(seq) + 1 - i]]

\* The iteration order of a HashMap built by these inserts.
HashOrder(entries, hash_order) ==
    IF hash_order = "reversed" THEN Reverse(entries) ELSE entries

\* The keys of a map as values, in iteration order.
MapKeys(entries) == [i \in 1 .. Len(entries) |-> entries[i].key]

\* functions::length
length(this) ==
    CASE this.t = "List" -> Ok(IntV(Len(this.items)))
      [] this.t = "Map" -> Ok(IntV(Len(this.entries)))
      [] this.t = "String" -> Ok(IntV(ByteLen(this.s)))
      [] this.t = "Bytes" -> Ok(IntV(Len(this.by)))
      [] OTHER -> Err(FunctionError("length"))

\* functions::contains.  slice::windows aborts on a window size of 0.
\* The values of the model have no Ip variant, so the Ip arm of the code
\* (an address inside a network) is the one arm left out.
contains(this, arg) ==
    CASE this.t = "List" -> Ok(BoolV(\E i \in 1 .. Len(this.items) : ValueEq(this.items[i], arg)))
      [] this.t = "Map" ->
            IF IsSome(TryIntoKey(arg))
              THEN Ok(BoolV(IsSome(MapGet(this.entries, arg))))
              ELSE Err(UnsupportedKeyType(arg))
      [] this.t = "String" -> Ok(BoolV(arg.t = "String" /\ IsInfix(arg.s, this.s)))
      [] this.t = "Bytes" ->
            IF arg.t # "Bytes" THEN Ok(BoolV(FALSE))
            ELSE IF Len(arg.by) = 0 THEN Abort("window size must be non-zero")
            ELSE Ok(BoolV(IsInfix(arg.by, this.by)))
      [] OTHER -> Ok(BoolV(FALSE))

\* functions::starts_with
starts_with(this, prefix) ==
    IF this.t # "String" THEN Err(UnexpectedType(this.t, "String"))
    ELSE IF prefix.t # "String" THEN Err(UnexpectedType(prefix.t, "String"))
    ELSE Ok(BoolV(IsPrefix(prefix.s, this.s)))

RECURSIVE Resolve(_, _)
RECURSIVE ResolveElements(_, _, _)
RECURSIVE ResolveEntries(_, _, _)
RECURSIVE Loop(_, _, _, _)
RECURSIVE LoopStep(_, _, _)
RECURSIVE EnterLoop(_, _)
RECURSIVE CallFunction(_, _, _, _)

\* Expr::List: the elements left to right; the first failure ends it.  `v` is
\* the outcome of the first of `elements`.
ElementResolved(v, elements, ctx, done) ==
    IF ~IsOk(v) THEN v
    ELSE ResolveElements(Tail(elements), ctx, Append(done, v.v))

ResolveElements(elements, ctx, done) ==
    IF Len(elements) = 0
      THEN Ok(ListV(0, done))
      ELSE ElementResolved(Resolve(elements[1], ctx), elements, ctx, done)

\* Expr::Map: the entries in order: key, then value, then insert.
EntryValueResolved(key, v, entries, ctx, done) ==
    IF ~IsOk(v) THEN v
    ELSE ResolveEntries(Tail(entries), ctx, MapInsert(done, key, v.v))

EntryKeyResolved(k, entries, ctx, done) ==
    IF ~IsOk(k) THEN k
    ELSE IF ~IsSome(TryIntoKey(k.v)) THEN Err(UnsupportedKeyType(k.v))
    ELSE EntryValueResolved(k.v, Resolve(entries[1].value, ctx), entries, ctx, done)

ResolveEntries(entries, ctx, done) ==
    IF Len(entries) = 0
      THEN Ok(MapV(0, HashOrder(done, ctx.hash_order)))
      ELSE EntryKeyResolved(Resolve(entries[1].key, ctx), entries, ctx, done)

\* The start of Expr::Comprehension: accu_init, then iter_range, then the
\* inner scope with the accumulator bound; the items to loop over and that
\* scope, or the failure that ended it.
RangeResolved(iter, accu_init, comp, ctx) ==
    IF ~IsOk(iter) THEN iter
    ELSE IF iter.v.t \notin {"List", "Map"} THEN Abort("not yet implemented")
    ELSE [k |-> "loop",
          items |-> IF iter.v.t = "List" THEN iter.v.items ELSE MapKeys(iter.v.entries),
          ctx |-> add_variable_from_value(new_inner_scope(ctx), comp.accu_var, accu_init)]

AccuInitResolved(accu_init, comp, ctx) ==
    IF ~IsOk(accu_init) THEN accu_init
    ELSE RangeResolved(Resolve(comp.iter_range, ctx), accu_init.v, comp, ctx)

EnterLoop(comp, ctx) == AccuInitResolved(Resolve(comp.accu_init, ctx), comp, ctx)

\* One iteration of the loop on `item`: the scope after it ("scope"), the
\* scope at the break when loop_cond is false ("break"), or the failure.
StepResolved(accu, bound, comp) ==
    IF ~IsOk(accu) THEN accu
    ELSE [k |-> "scope", ctx |-> add_variable_from_value(bound, comp.accu_var, accu.v)]

IterBound(bound, comp) == StepResolved(Resolve(comp.loop_step, bound), bound, comp)

CondResolved(cond, comp, item, ctx) ==
    IF ~IsOk(cond) THEN cond
    ELSE IF ~IsOk(to_bool(cond.v)) THEN to_bool(cond.v)
    ELSE IF ~cond.v.b THEN [k |-> "break", ctx |-> ctx]
    ELSE IterBound(add_variable_from_value(ctx, comp.iter_var, item), comp)

LoopStep(comp, item, ctx) == CondResolved(Resolve(comp.loop_cond, ctx), comp, item, ctx)

\* The loop over items[i..]: the scope the loop ends with, or the failure
\* that ended it.
Stepped(s, comp, items, i) ==
    IF s.k = "scope" THEN Loop(comp, items, i + 1, s.ctx)
    ELSE IF s.k = "break" THEN [k |-> "scope", ctx |-> s.ctx]
    ELSE s

Loop(comp, items, i, ctx) ==
    IF i > Len(items)
      THEN [k |-> "scope", ctx |-> ctx]
      ELSE Stepped(LoopStep(comp, items[i], ctx), comp, items, i)

\* A call that reaches the function registry: `this` is the evaluated
\* receiver, if the call has one; This<T> takes the receiver or else the
\* first argument, and the arguments after it are evaluated in order.
ArgResolved(name, self, arg) ==
    IF ~IsOk(arg) THEN arg
    ELSE IF name = "contains" THEN contains(self, arg.v)
    ELSE starts_with(self, arg.v)

SelfResolved(name, self, first, args, ctx) ==
    LET arity == IF name = "length" THEN 0 ELSE 1
        given == Len(args) - (first - 1)
    IN  IF ~IsOk(self) THEN self
        ELSE IF given # arity
          THEN Err(InvalidArgumentCount(arity, IF given < 0 THEN 0 ELSE given))
        ELSE IF name = "length" THEN length(self.v)
        ELSE ArgResolved(name, self.v, Resolve(args[first], ctx))

\* What the function a host registers returns.
UserValue == StringV(<< 117 >>)

\* A function of the host, registered with add_function: it takes the
\* evaluated arguments, however many (the Arguments extractor), and returns
\* UserValue.
UserFunction(arguments) == IF ~IsOk(arguments) THEN arguments ELSE Ok(UserValue)

CallFunction(name, this, args, ctx) ==
    IF get_function(ctx, name) # Some(name)
      THEN UserFunction(ResolveElements(args, ctx, << >>))
      ELSE SelfResolved(name,
                        IF IsSome(this) THEN Ok(Unwrap(this))
                        ELSE IF Len(args) >= 1 THEN Resolve(args[1], ctx)
                        ELSE Err(MissingArgumentOrTarget),
                        IF IsSome(this) THEN 1 ELSE 2, args, ctx)

\* The operators of two evaluated operands: the left one, then the right one.
RightResolved(name, l, r, overflow_checks) ==
    IF ~IsOk(r) THEN r ELSE BinaryOperator(name, l, r.v, overflow_checks)

LeftResolved(name, l, right, ctx) ==
    IF ~IsOk(l) THEN l
    ELSE RightResolved(name, l.v, Resolve(right, ctx), ctx.overflow_checks)

\* A call with a receiver: the receiver is evaluated, then the function runs.
TargetResolved(target, expr, ctx) ==
    IF ~IsOk(target) THEN target
    ELSE CallFunction(expr.func_name, Some(target.v), expr.args, ctx)

\* A call that is none of the operators above.  `one` is the outcome of the
\* only argument when the call has exactly one: it is evaluated before the
\* name of the call is looked at.
OtherCall(one, expr, ctx) ==
    IF ~IsOk(one) THEN one
    ELSE IF Len(expr.args) = 1 /\ expr.func_name = "!_" THEN LogicalNot(one.v)
    ELSE IF Len(expr.args) = 1 /\ expr.func_name = "-_" THEN Negate(one.v, ctx.overflow_checks)
    ELSE IF Len(expr.args) = 1 /\ expr.func_name = "@not_strictly_false"
      THEN NotStrictlyFalse(one.v)
    ELSE IF ~IsSome(get_function(ctx, expr.func_name))
      THEN Err(UndeclaredReference(expr.func_name))
    ELSE IF ~IsSome(expr.target) THEN CallFunction(expr.func_name, None, expr.args, ctx)
    ELSE TargetResolved(Resolve(Unwrap(expr.target), ctx), expr, ctx)

\* Expr::Select
Selected(left, expr) ==
    IF ~IsOk(left) THEN left
    ELSE IF expr.test THEN SelectTest(left.v, expr.field)
    ELSE member(left.v, expr.field)

\* Expr::Comprehension after the loop, and after its start
LoopEnded(end, comp) == IF end.k # "scope" THEN end ELSE Resolve(comp.result, end.ctx)

LoopEntered(start, comp) ==
    IF start.k # "loop" THEN start
    ELSE LoopEnded(Loop(comp, start.items, 1, start.ctx), comp)

\* Value::resolve
Resolve(expr, ctx) ==
    CASE expr.e = "Literal" -> Ok(expr.val)
      [] expr.e = "Ident" -> get_variable(ctx, expr.name)
      [] expr.e = "Call" ->
            IF Len(expr.args) = 3 /\ expr.func_name = "_?_:_"
              THEN Conditional(Resolve(expr.args[1], ctx), Resolve(expr.args[2], ctx),
                               Resolve(expr.args[3], ctx))
            ELSE IF Len(expr.args) = 2 /\ expr.func_name = "_||_"
              THEN LogicalOr(Resolve(expr.args[1], ctx), Resolve(expr.args[2], ctx))
            ELSE IF Len(expr.args) = 2 /\ expr.func_name = "_&&_"
              THEN LogicalAnd(Resolve(expr.args[1], ctx), Resolve(expr.args[2], ctx))
            ELSE IF Len(expr.args) = 2 /\ expr.func_name \in StrictBinaryOperators
              THEN LeftResolved(expr.func_name, Resolve(expr.args[1], ctx), expr.args[2], ctx)
            ELSE OtherCall(IF Len(expr.args) = 1 THEN Resolve(expr.args[1], ctx) ELSE Ok(NullV),
                           expr, ctx)
      [] expr.e = "Select" -> Selected(Resolve(expr.operand, ctx), expr)
      [] expr.e = "List" -> ResolveElements(expr.elements, ctx, << >>)
      [] expr.e = "Map" -> ResolveEntries(expr.entries, ctx, << >>)
      [] expr.e = "Comprehension" -> LoopEntered(EnterLoop(expr, ctx), expr)
      [] OTHER -> Abort("not yet implemented")

\* Program::execute
execute(program, context) == Resolve(program, context)

-----------------------------------------------------------------------------
(* The macro rewriter (parser/macros.rs) *)

AccuVar == "@result"

\* fn all_macro_expander
all_macro(target, v, p) ==
    Comprehension(target, v, AccuVar,
                  Literal(BoolV(TRUE)),
                  Call1("@not_strictly_false", Ident(AccuVar)),
                  Call2("_&&_", Ident(AccuVar), p),
                  Ident(AccuVar))

\* An any whose accumulator starts as true.
any_macro_seeded_true(target, v, p) ==
    Comprehension(target, v, AccuVar,
                  Literal(BoolV(TRUE)),
                  Call1("@not_strictly_false", Call1("!_", Ident(AccuVar))),
                  Call2("_||_", Ident(AccuVar), p),
                  Ident(AccuVar))
\* An any that looks at every element: no break, the predicate first.
any_macro_exhaustive(target, v, p) ==
    Comprehension(target, v, AccuVar,
                  Literal(BoolV(FALSE)),
                  Literal(BoolV(TRUE)),
                  Call2("_||_", p, Ident(AccuVar)),
                  Ident(AccuVar))
\* fn any_macro_expander
any_macro(target, v, p) ==
    Comprehension(target, v, AccuVar,
                  Literal(BoolV(FALSE)),
                  Call1("@not_strictly_false", Call1("!_", Ident(AccuVar))),
                  Call2("_||_", Ident(AccuVar), p),
                  Ident(AccuVar))

\* A map whose step puts the new element in front of the accumulator.
map_macro_prepend(target, v, f) ==
    Comprehension(target, v, AccuVar,
                  ListExpr(<< >>),
                  Literal(BoolV(TRUE)),
                  Call2("_+_", ListExpr(<< f >>), Ident(AccuVar)),
                  Ident(AccuVar))
\* fn map_macro_expander
map_macro(target, v, f) ==
    Comprehension(target, v, AccuVar,
                  ListExpr(<< >>),
                  Literal(BoolV(TRUE)),
                  Call2("_+_", Ident(AccuVar), ListExpr(<< f >>)),
                  Ident(AccuVar))

\* A filter that keeps the elements the predicate rejects.
filter_macro_inverted(target, v, p) ==
    Comprehension(target, v, AccuVar,
                  ListExpr(<< >>),
                  Literal(BoolV(TRUE)),
                  Call3("_?_:_", p,
                        Ident(AccuVar),
                        Call2("_+_", Ident(AccuVar), ListExpr(<< Ident(v) >>))),
                  Ident(AccuVar))
\* fn filter_macro_expander
filter_macro(target, v, p) ==
    Comprehension(target, v, AccuVar,
                  ListExpr(<< >>),
                  Literal(BoolV(TRUE)),
                  Call3("_?_:_", p,
                        Call2("_+_", Ident(AccuVar), ListExpr(<< Ident(v) >>)),
                        Ident(AccuVar)),
                  Ident(AccuVar))

\* fn has_macro_expander, on a select argument
has_macro(select) == [select EXCEPT !.test = TRUE]

\* The comprehension a macro call `target.name(v, body)` is rewritten to.
Expand(name, target, v, body) ==
    CASE name = "all" -> all_macro(target, v, body)
      [] name = "any" -> any_macro(target, v, body)
      [] name = "map" -> map_macro(target, v, body)
      [] OTHER -> filter_macro(target, v, body)

-----------------------------------------------------------------------------
(* The inputs the state machine draws from *)

\* Most bindings the host adds to a context chain before it runs a program.
MaxBindings == 2
\* Most scopes of a context chain the host builds (the root included).
MaxDepth == 2

HashOrders == {"inserted", "reversed"}

\* Code points of the strings the programs use.
StrA == << 97 >>
StrAB == << 97, 98 >>
StrX == << 120 >>

EmptyMap == MapV(1, << >>)
MapWithX == MapV(2, << Entry(StringV(StrX), StringV(StrAB)) >>)
OneTwo == ListV(3, << IntV(1), IntV(2) >>)

\* The (name, value) pairs Context::add_variable is called with.
Bindings ==
    { << "x", IntV(5) >>, << "x", IntV(MinInt) >>,
      << "m", EmptyMap >>, << "m", MapWithX >>,
      << "xs", OneTwo >> }

True == Literal(BoolV(TRUE))
False == Literal(BoolV(FALSE))
One == Literal(IntV(1))
Two == Literal(IntV(2))
X == Ident("x")
MX == Select(Ident("m"), StrX, FALSE)
HasMX == has_macro(MX)
MXStartsWithA == Method("starts_with", MX, << Literal(StringV(StrA)) >>)
DivByZero == Call2("_/_", One, Literal(IntV(0)))
\* 1.map(x, x): a comprehension whose range is not a list or a map
MapOverInt == map_macro(One, "x", X)

\* Operands of the logical operators: booleans, non-booleans, operands that
\* fail with an error and an operand that cannot be evaluated at all.
LogicOperands ==
    { True, False, One, Literal(NullV), X, HasMX, MXStartsWithA, DivByZero, MapOverInt }

LogicPrograms ==
    { Call2(op, a, b) : op \in {"_&&_", "_||_"}, a \in LogicOperands, b \in LogicOperands }
    \cup { Call1("!_", a) : a \in LogicOperands }
    \cup { Call3("_?_:_", c, a, b) : c \in LogicOperands,
                                     a \in {One, DivByZero}, b \in {Two, MXStartsWithA} }

\* [[1, 2], [2, 3]]
NestedList ==
    ListExpr(<< ListExpr(<< One, Two >>), ListExpr(<< Two, Literal(IntV(3)) >>) >>)
\* [[1, 2], [2, 3]].map(x, x.map(x, x * 2)) == [[2, 4], [4, 6]]
NestedMap == map_macro(NestedList, "x", map_macro(X, "x", Call2("_*_", X, Two)))
NestedMapExpected ==
    ListExpr(<< ListExpr(<< Two, Literal(IntV(4)) >>),
                ListExpr(<< Literal(IntV(4)), Literal(IntV(6)) >>) >>)
NestedMapEq == Call2("_==_", NestedMap, NestedMapExpected)

Ranges ==
    { Ident("xs"), Ident("m"), ListExpr(<< One, Two >>), ListExpr(<< Two, True >>), One,
      ListExpr(<< One >>),
      MapExpr(<< MapEntry(One, True), MapEntry(Two, False) >>) }
Bodies ==
    { True, X, Call2("_>_", X, One), Call2("_*_", X, Two), Call2("_==_", X, Two),
      DivByZero, Ident("@result") }

ComprehensionPrograms ==
    { Expand(name, r, "x", b) : name \in {"all", "any", "map", "filter"},
                                r \in Ranges, b \in Bodies }
    \cup { NestedMap, map_macro(Ident("xs"), "xs", Ident("xs")) }

OtherPrograms ==
    { X, Ident("@result"), HasMX, MX, MXStartsWithA, NestedMapEq,
      Call1("-_", X), Call1("-_", One),
      Call2("_[_]", Literal(StringV(StrAB)), Literal(IntV(MaxInt))),
      Call2("_[_]", Literal(StringV(StrAB)), One),
      Method("contains", Literal(BytesV(<< 1 >>)), << Literal(BytesV(<< >>)) >>),
      Method("contains", Ident("xs"), << One >>),
      Method("length", Ident("xs"), << >>),
      Call1("length", Ident("xs")),
      Call1("size", Ident("xs")),
      Call2("_+_", Ident("xs"), Ident("xs")),
      Call2("_+_", X, One) }

Programs == LogicPrograms \cup ComprehensionPrograms \cup OtherPrograms

-----------------------------------------------------------------------------
(* The state machine: a host builds a context chain, then runs a program *)

VARIABLES
    pc,        \* "setup", "loop" (inside a top-level comprehension) or "done"
    context,   \* the context the host holds, innermost scope last
    program,   \* the expression being executed
    outcome,   \* what execute returned: Ok, Err or Abort
    loop,      \* the items of the running comprehension and the next index
    before,    \* the context as it was when execute was called
    heap,      \* the Arc allocations of list values: contents and strong count
    threads    \* the executions that run the one program concurrently

vars == << pc, context, program, outcome, loop, before, heap, threads >>

\* The variables of the concurrent executions, unused by a single one.
conc == << heap, threads >>

NoProgram == Literal(NullV)
NoOutcome == [k |-> "none"]
NoLoop == [items |-> << >>, i |-> 0]

\* Number of bindings in the whole chain.
BindingCount(ctx) ==
    Cardinality({ << d, n >> \in (1 .. Len(ctx.scopes)) \X VarNames : IsSome(ctx.scopes[d][n]) })

\* The context with its innermost scope dropped.
Parent(ctx) == [ctx EXCEPT !.scopes = SubSeq(@, 1, Len(@) - 1)]

Init ==
    /\ pc = "setup"
    /\ context \in { RootContext(NoVariables, oc, ho) : oc \in BOOLEAN, ho \in HashOrders }
    /\ program = NoProgram
    /\ outcome = NoOutcome
    /\ loop = NoLoop
    /\ before = context
    /\ heap = << >>
    /\ threads = << >>

\* Context::add_variable on the innermost scope the host holds
AddVariable(name, value) ==
    /\ pc = "setup"
    /\ BindingCount(context) < MaxBindings
    /\ context' = add_variable_from_value(context, name, value)
    /\ before' = context'
    /\ UNCHANGED << pc, program, outcome, loop >>
    /\ UNCHANGED conc

\* Context::new_inner_scope: the host goes on with the child
NewInnerScope ==
    /\ pc = "setup"
    /\ Len(context.scopes) < MaxDepth
    /\ context' = new_inner_scope(context)
    /\ before' = context'
    /\ UNCHANGED << pc, program, outcome, loop >>
    /\ UNCHANGED conc

\* Program::execute on an expression that is not a comprehension
Execute(p) ==
    /\ pc = "setup"
    /\ p.e # "Comprehension"
    /\ program' = p
    /\ outcome' = execute(p, context)
    /\ pc' = "done"
    /\ UNCHANGED << context, loop, before >>
    /\ UNCHANGED conc

\* Program::execute on a comprehension, up to the first iteration: the
\* evaluator goes on in the inner scope, or returns the failure.
Entered(start) ==
    IF start.k = "loop"
      THEN /\ context' = start.ctx
           /\ loop' = [items |-> start.items, i |-> 1]
           /\ pc' = "loop"
           /\ outcome' = outcome
      ELSE /\ outcome' = start
           /\ pc' = "done"
           /\ UNCHANGED << context, loop >>

EnterComprehension(p) ==
    /\ pc = "setup"
    /\ p.e = "Comprehension"
    /\ program' = p
    /\ Entered(EnterLoop(p, context))
    /\ UNCHANGED before
    /\ UNCHANGED conc

\* One iteration of the comprehension's loop.  A failure returns from
\* execute, and the inner scope is dropped with it.
Iterated(s) ==
    CASE s.k = "scope" ->
            /\ context' = s.ctx
            /\ loop' = [loop EXCEPT !.i = @ + 1]
            /\ UNCHANGED << pc, outcome >>
      [] s.k = "break" ->
            /\ loop' = [loop EXCEPT !.i = Len(loop.items) + 1]
            /\ UNCHANGED << pc, outcome, context >>
      [] OTHER ->
            /\ outcome' = s
            /\ context' = Parent(context)
            /\ loop' = NoLoop
            /\ pc' = "done"

StepComprehension ==
    /\ pc = "loop"
    /\ loop.i <= Len(loop.items)
    /\ Iterated(LoopStep(program, loop.items[loop.i], context))
    /\ UNCHANGED << program, before >>
    /\ UNCHANGED conc

\* The end of the loop: the result expression is evaluated in the inner
\* scope, which is dropped when execute returns.
ExitComprehension ==
    /\ pc = "loop"
    /\ loop.i > Len(loop.items)
    /\ outcome' = Resolve(program.result, context)
    /\ context' = Parent(context)
    /\ loop' = NoLoop
    /\ pc' = "done"
    /\ UNCHANGED << program, before >>
    /\ UNCHANGED conc

Next ==
    \/ \E b \in Bindings : AddVariable(b[1], b[2])
    \/ NewInnerScope
    \/ \E p \in Programs : Execute(p)
    \/ \E p \in Programs : EnterComprehension(p)
    \/ StepComprehension
    \/ ExitComprehension

Spec == Init /\ [][Next]_vars

-----------------------------------------------------------------------------
(* Properties of the evaluator *)

\* The outcome of the program's k-th argument in the context it ran in.
Operand(k) == Resolve(program.args[k], context)

IsCall(name, arity) ==
    pc = "done" /\ program.e = "Call" /\ program.func_name = name /\ Len(program.args) = arity

\* The steps of a top-level comprehension end with the outcome that
\* Value::resolve has for the whole expression in the context it was called in.
StepsAgreeWithResolve ==
    (pc = "done" /\ program.e = "Comprehension") => outcome = Resolve(program, before)

\* C1: execute always returns: its outcome is a value or an ExecutionError,
\* never an abort (a panic, a todo!, a failed expect or an arithmetic abort).
C1_ExecuteNeverAborts == pc = "done" => outcome.k \in {"ok", "err"}

\* C2: `&&` with a false left operand is false, `||` with a true left operand
\* is true and the ternary operator is its chosen branch, whatever the operand
\* that is not evaluated would do; has(m.x) && m.x.starts_with("a") is false
\* on an empty map m.
C2_ShortCircuit ==
    /\ (IsCall("_&&_", 2) /\ Operand(1) = Ok(BoolV(FALSE))) => outcome = Ok(BoolV(FALSE))
    /\ (IsCall("_||_", 2) /\ Operand(1) = Ok(BoolV(TRUE))) => outcome = Ok(BoolV(TRUE))
    /\ (IsCall("_?_:_", 3) /\ Operand(1) = Ok(BoolV(TRUE))) => outcome = Operand(2)
    /\ (IsCall("_?_:_", 3) /\ Operand(1) = Ok(BoolV(FALSE))) => outcome = Operand(3)
    /\ (/\ pc = "done"
        /\ program = Call2("_&&_", HasMX, MXStartsWithA)
        /\ get_variable(context, "m") = Ok(EmptyMap)) => outcome = Ok(BoolV(FALSE))

\* has(m.x) && m.x.starts_with("a") has run on the empty map m: the right
\* operand alone fails with NoSuchKey, the conjunction is false.
C2_Witness ==
    /\ pc = "done"
    /\ program = Call2("_&&_", HasMX, MXStartsWithA)
    /\ get_variable(context, "m") = Ok(EmptyMap)
    /\ Operand(2) = Err(NoSuchKey(StrX))
    /\ outcome = Ok(BoolV(FALSE))

IsNonBool(r) == IsOk(r) /\ r.v.t # "Bool"

\* C4: a non-Bool operand of `&&`, `||`, `!` or of the ternary condition makes
\* the operation fail with NoSuchOverload; that includes the right operand of
\* `a || b` when a is false (and of `a && b` when a is true).
C4_NonBoolIsNoSuchOverload ==
    /\ (/\ \/ IsCall("_&&_", 2) \/ IsCall("_||_", 2) \/ IsCall("_?_:_", 3) \/ IsCall("!_", 1)
        /\ IsNonBool(Operand(1))) => outcome = Err(NoSuchOverload)
    /\ (IsCall("_&&_", 2) /\ Operand(1) = Ok(BoolV(TRUE)) /\ IsNonBool(Operand(2)))
          => outcome = Err(NoSuchOverload)
    /\ (IsCall("_||_", 2) /\ Operand(1) = Ok(BoolV(FALSE)) /\ IsNonBool(Operand(2)))
          => outcome = Err(NoSuchOverload)

\* The scopes of the chain that bind `name`.
BindingDepths(ctx, name) == { d \in 1 .. Len(ctx.scopes) : IsSome(ctx.scopes[d][name]) }

Max(S) == CHOOSE m \in S : \A n \in S : n <= m

\* xs.map(x, x): the loop rebinds x once per element
MapXs == map_macro(Ident("xs"), "x", X)

\* C8: a step of a context with scopes above the root (a binding added to a
\* child scope, an iteration of a comprehension) leaves every ancestor scope
\* as it was, entering a comprehension leaves the whole chain as it was, and
\* when execute returns, with a value or with a failure, the context is the
\* one it was called with: the iteration variable and the accumulator are
\* gone.
C8_AncestorsUnchanged ==
    [][/\ \A d \in 1 .. Len(context.scopes) :
             (/\ d <= Len(context'.scopes)
              /\ d < Len(context.scopes) \/ Len(context'.scopes) > Len(context.scopes))
                => context'.scopes[d] = context.scopes[d]
       /\ (pc # "done" /\ pc' = "done") =>
             /\ context' = before
             /\ \A n \in VarNames : get_variable(context', n) = get_variable(before, n)]_vars

\* xs.map(x, x) has returned [1, 2] in a context that binds x to 5: the loop
\* bound x to 1 and to 2, and x is 5 again.
C8_Witness ==
    /\ pc = "done"
    /\ program = MapXs
    /\ outcome = Ok(ListV(0, << IntV(1), IntV(2) >>))
    /\ get_variable(context, "x") = Ok(IntV(5))
    /\ get_variable(context, AccuVar) = Err(UndeclaredReference(AccuVar))

\* C9: get_variable returns the binding of the nearest scope that binds the
\* name, and UndeclaredReference(name) when no scope of the chain does; with
\* the same name in nested comprehensions the inner body sees the inner
\* binding and the outer body its own again:
\* [[1, 2], [2, 3]].map(x, x.map(x, x * 2)) == [[2, 4], [4, 6]].
C9_NearestBinding ==
    /\ \A n \in VarNames :
          get_variable(context, n) =
             IF BindingDepths(context, n) = {}
               THEN Err(UndeclaredReference(n))
               ELSE Ok(Unwrap(context.scopes[Max(BindingDepths(context, n))][n]))
    /\ (pc = "done" /\ program = NestedMap) =>
          outcome = Ok(ListV(0, << ListV(0, << IntV(2), IntV(4) >>),
                                   ListV(0, << IntV(4), IntV(6) >>) >>))
    /\ (pc = "done" /\ program = NestedMapEq) => outcome = Ok(BoolV(TRUE))

\* Inside xs.map(x, x), after the first iteration: x is 5 in the root scope
\* and 1 in the scope of the loop, and the lookup answers 1.
C9_Witness ==
    /\ pc = "loop"
    /\ program = MapXs
    /\ context.scopes[1]["x"] = Some(IntV(5))
    /\ context.scopes[Len(context.scopes)]["x"] = Some(IntV(1))
    /\ get_variable(context, "x") = Ok(IntV(1))

-----------------------------------------------------------------------------
(* The value algebra: one binary operator on two values *)

NaNList == ListV(4, << NaN >>)
NaNMap == MapV(8, << Entry(IntV(1), NaN) >>)
\* A map with a key of each kind; the value stored under "a" is Null.
KeyedMap ==
    MapV(9, << Entry(IntV(1), IntV(2)), Entry(BoolV(TRUE), StringV(StrAB)),
               Entry(StringV(StrA), NullV) >>)
\* A list that holds the list NaNList, and a list of Bools.
NestedNaN == ListV(7, << NaNList >>)
TrueFalse == ListV(10, << BoolV(TRUE), BoolV(FALSE), BoolV(TRUE) >>)
\* A list of an Int and a Bool: no order relates its second element to an Int.
TwoTrue == ListV(12, << IntV(2), BoolV(TRUE) >>)
\* The text "1", which is how the Int key 1 prints.
StrOne == << 49 >>

\* Values of every variant, the edge cases of each among them.  The lists and
\* maps are distinct allocations; NaNList and the list with id 5 hold the same
\* elements in two allocations.
Samples ==
    { IntV(MinInt), IntV(-1), IntV(0), IntV(1), IntV(2), IntV(MaxInt),
      NaN, PosInf, NegInf, Fin(0), Fin(2), Fin(3), Fin(-2), Fin(FloatMaxN),
      StringV(<< >>), StringV(StrA), StringV(StrAB), StringV(<< 233 >>), StringV(StrOne),
      BytesV(<< >>), BytesV(<< 1 >>), BytesV(<< 1, 2 >>),
      BoolV(TRUE), BoolV(FALSE), NullV,
      EmptyMap, MapWithX, NaNMap, KeyedMap, OneTwo, NaNList, ListV(5, << NaN >>), ListV(6, << >>),
      NestedNaN, TrueFalse, TwoTrue, ListV(11, << RegexV(StrA) >>),
      FunctionV("f", None), FunctionV("f", Some(IntV(1))), FunctionV("f", Some(NaN)),
      DurationV(0), DurationV(1), DurationV(-1), DurationV(DurationMax),
      TimestampV(MIN_TIMESTAMP), TimestampV(2000), TimestampV(MAX_TIMESTAMP),
      RegexV(StrA), IpV(1), IpV(2) }

IntOperators == {"_+_", "_-_", "_*_", "_/_", "_%_"}
ComparisonOperators == {"_<_", "_<=_", "_>_", "_>=_"}

\* The pairs of operands: every pair of samples and every pair of Ints.
OperandPairs == (Samples \X Samples) \cup { << IntV(a), IntV(b) >> : a \in Ints, b \in Ints }

\* The operands, bound in the root context as `lhs` and `rhs`.
Lhs == Unwrap(context.scopes[1]["lhs"])
Rhs == Unwrap(context.scopes[1]["rhs"])

WithOperands(ctx, a, b) ==
    add_variable_from_value(add_variable_from_value(ctx, "lhs", a), "rhs", b)

InitValue ==
    /\ pc = "setup"
    /\ context \in { WithOperands(RootContext(NoVariables, oc, "inserted"), ab[1], ab[2]) :
                       oc \in BOOLEAN, ab \in OperandPairs }
    /\ program = NoProgram
    /\ outcome = NoOutcome
    /\ loop = NoLoop
    /\ before = context
    /\ heap = << >>
    /\ threads = << >>

\* execute on `lhs op rhs`
Operate(op) ==
    /\ pc = "setup"
    /\ program' = Call2(op, Ident("lhs"), Ident("rhs"))
    /\ outcome' = execute(program', context)
    /\ pc' = "done"
    /\ UNCHANGED << context, loop, before >>
    /\ UNCHANGED conc

\* Value::partial_cmp on the two operands, in both directions
PartialCmp ==
    /\ pc = "setup"
    /\ outcome' = [k |-> "cmp", ab |-> partial_cmp(Lhs, Rhs), ba |-> partial_cmp(Rhs, Lhs)]
    /\ pc' = "done"
    /\ UNCHANGED << context, program, loop, before >>
    /\ UNCHANGED conc

\* execute on the map literal {lhs: 1, rhs: 2}
MapLiteral == MapExpr(<< MapEntry(Ident("lhs"), One), MapEntry(Ident("rhs"), Two) >>)

BuildMap ==
    /\ pc = "setup"
    /\ program' = MapLiteral
    /\ outcome' = execute(program', context)
    /\ pc' = "done"
    /\ UNCHANGED << context, loop, before >>
    /\ UNCHANGED conc

\* execute on has(lhs.f), f the text of the string `rhs`
Has ==
    /\ pc = "setup"
    /\ Rhs.t = "String"
    /\ program' = has_macro(Select(Ident("lhs"), Rhs.s, FALSE))
    /\ outcome' = execute(program', context)
    /\ pc' = "done"
    /\ UNCHANGED << context, loop, before >>
    /\ UNCHANGED conc

\* lhs.map(x, x) and lhs.filter(x, true)
Identity(name) == Expand(name, Ident("lhs"), "x", IF name = "map" THEN X ELSE True)

\* execute on lhs.map(x, x), on lhs.filter(x, true), and on each compared
\* with lhs
MapIdentity(name, compared) ==
    /\ pc = "setup"
    /\ program' = IF compared THEN Call2("_==_", Identity(name), Ident("lhs"))
                               ELSE Identity(name)
    /\ outcome' = execute(program', context)
    /\ pc' = "done"
    /\ UNCHANGED << context, loop, before >>
    /\ UNCHANGED conc

\* Predicates on the iteration variable x: x == rhs, x > rhs, x, rhs, true
Predicates ==
    { Call2("_==_", X, Ident("rhs")), Call2("_>_", X, Ident("rhs")), X, Ident("rhs"), True }

\* lhs.all(x, p) == !lhs.any(x, !p)
AllIsNotAnyNot(p) ==
    Call2("_==_", all_macro(Ident("lhs"), "x", p),
                  Call1("!_", any_macro(Ident("lhs"), "x", Call1("!_", p))))

\* execute on lhs.all(x, p) == !lhs.any(x, !p)
AllVersusAny(p) ==
    /\ pc = "setup"
    /\ program' = AllIsNotAnyNot(p)
    /\ outcome' = execute(program', context)
    /\ pc' = "done"
    /\ UNCHANGED << context, loop, before >>
    /\ UNCHANGED conc

\* execute on lhs.all(x, p) and on lhs.any(x, p)
AllAny(name, p) ==
    /\ pc = "setup"
    /\ program' = Expand(name, Ident("lhs"), "x", p)
    /\ outcome' = execute(program', context)
    /\ pc' = "done"
    /\ UNCHANGED << context, loop, before >>
    /\ UNCHANGED conc

\* lhs.f, and has(lhs.f) && lhs.f == lhs.f
LhsField(f) == Select(Ident("lhs"), f, FALSE)
GuardedField(f) == Call2("_&&_", has_macro(LhsField(f)), Call2("_==_", LhsField(f), LhsField(f)))

\* execute on lhs.f, alone and behind has(lhs.f), f the text of the string `rhs`
Member(guarded) ==
    /\ pc = "setup"
    /\ Rhs.t = "String"
    /\ program' = IF guarded THEN GuardedField(Rhs.s) ELSE LhsField(Rhs.s)
    /\ outcome' = execute(program', context)
    /\ pc' = "done"
    /\ UNCHANGED << context, loop, before >>
    /\ UNCHANGED conc

\* execute on -lhs
Negative ==
    /\ pc = "setup"
    /\ program' = Call1("-_", Ident("lhs"))
    /\ outcome' = execute(program', context)
    /\ pc' = "done"
    /\ UNCHANGED << context, loop, before >>
    /\ UNCHANGED conc

\* execute on lhs.contains(rhs)
Contains ==
    /\ pc = "setup"
    /\ program' = Method("contains", Ident("lhs"), << Ident("rhs") >>)
    /\ outcome' = execute(program', context)
    /\ pc' = "done"
    /\ UNCHANGED << context, loop, before >>
    /\ UNCHANGED conc

NextValue ==
    \/ \E op \in StrictBinaryOperators : Operate(op)
    \/ Negative
    \/ Contains
    \/ \E guarded \in BOOLEAN : Member(guarded)
    \/ PartialCmp
    \/ BuildMap
    \/ Has
    \/ \E name \in {"map", "filter"}, compared \in BOOLEAN : MapIdentity(name, compared)
    \/ \E p \in Predicates : AllVersusAny(p)
    \/ \E name \in {"all", "any"}, p \in Predicates : AllAny(name, p)

SpecValue == InitValue /\ [][NextValue]_vars

-----------------------------------------------------------------------------
(* Properties of the value algebra *)

\* `lhs op rhs` has been executed, op one of ops.
Ran(ops) ==
    pc = "done" /\ \E op \in ops : program = Call2(op, Ident("lhs"), Ident("rhs"))

\* The quotient and remainder of a by b (b # 0), rounded towards zero: the
\* only q, r with a = q * b + r, |r| < |b| and r of the sign of a.
Quotient(a, b) ==
    CHOOSE q \in -(2 ^ IntBits) .. 2 ^ IntBits :
        LET r == a - q * b IN Abs(r) < Abs(b) /\ (r = 0 \/ (r < 0) = (a < 0))
Remainder(a, b) == a - Quotient(a, b) * b

\* The mathematical result of an Int operator, divisor not zero.
Exact(op, a, b) ==
    CASE op = "_+_" -> a + b
      [] op = "_-_" -> a - b
      [] op = "_*_" -> a * b
      [] op = "_/_" -> Quotient(a, b)
      [] OTHER -> Remainder(a, b)

OpName(op) ==
    CASE op = "_+_" -> "add" [] op = "_-_" -> "sub" [] op = "_*_" -> "mul"
      [] op = "_/_" -> "div" [] OTHER -> "rem"

\* C3: on two Ints, + - * / % give the exact mathematical result when it fits
\* the Int range and Overflow(op, a, b) when it does not (MIN / -1 and
\* MIN % -1 included); a zero divisor gives DivisionByZero(a) or
\* RemainderByZero(a); the result is never a wrapped number.
C3_IntArithmeticIsChecked ==
    (Ran(IntOperators) /\ Lhs.t = "Int" /\ Rhs.t = "Int") =>
        LET op == program.func_name
            a == Lhs.i
            b == Rhs.i
        IN  IF op = "_/_" /\ b = 0 THEN outcome = Err(DivisionByZero(IntV(a)))
            ELSE IF op = "_%_" /\ b = 0 THEN outcome = Err(RemainderByZero(IntV(a)))
            ELSE IF op \in {"_/_", "_%_"} /\ a = MinInt /\ b = -1
              THEN outcome = Err(Overflow(OpName(op), IntV(a), IntV(b)))
            ELSE IF Exact(op, a, b) \in Ints THEN outcome = Ok(IntV(Exact(op, a, b)))
            ELSE outcome = Err(Overflow(OpName(op), IntV(a), IntV(b)))

\* The largest Int plus one has overflowed.
C3_Witness ==
    /\ Ran({"_+_"}) /\ Lhs = IntV(MaxInt) /\ Rhs = IntV(1)
    /\ outcome = Err(Overflow("add", IntV(MaxInt), IntV(1)))

\* C5: v == v is true for every value v of every variant, except that
\* Float(NaN) == Float(NaN) is false.
C5_EqualityIsReflexive ==
    (Ran({"_==_"}) /\ Lhs = Rhs) => outcome = Ok(BoolV(Lhs # NaN))

\* C6: partial_cmp(a, b) is Less exactly when partial_cmp(b, a) is Greater,
\* for every pair of values, an Int with a Float included.
C6_OrderIsAntisymmetric ==
    (pc = "done" /\ outcome.k = "cmp") =>
        /\ (outcome.ab = Some("Less")) <=> (outcome.ba = Some("Greater"))
        /\ (outcome.ab = Some("Greater")) <=> (outcome.ba = Some("Less"))

\* A Float has been compared with a smaller Int.
C6_Witness ==
    /\ pc = "done" /\ outcome.k = "cmp"
    /\ Lhs = Fin(3) /\ Rhs = IntV(1)
    /\ outcome.ab = Some("Greater") /\ outcome.ba = Some("Less")

\* What a comparison operator answers on an ordering.
Answer(op, o) ==
    CASE op = "_<_" -> o = "Less"
      [] op = "_<=_" -> o \in {"Less", "Equal"}
      [] op = "_>_" -> o = "Greater"
      [] OTHER -> o \in {"Greater", "Equal"}

Numeric(v) == v.t \in {"Int", "Float"}

-----------------------------------------------------------------------------
(* Concurrent executions of one Program, each with its own Context *)

\* Number of executions that run at once.
NThreads == 2
Threads == 1 .. NThreads
\* Allocations one execution makes at most.
MaxAlloc == 3
\* Cells 1 .. NThreads are the lists the contexts hold; the others belong to
\* the execution that allocates them.
Cells == 1 .. (NThreads + NThreads * MaxAlloc)
NewCell(t, n) == NThreads + (t - 1) * MaxAlloc + n + 1

\* A handle to a list (an Arc<Vec<Value>>); every other value is held directly.
Ref(c) == [ref |-> c]
IsRef(e) == "ref" \in DOMAIN e

ArcCell(items, rc) == [items |-> items, rc |-> rc]
FreeCell == ArcCell(<< >>, 0)

\* The list a context holds in cell c when the executions start.
InitialItems(c) == << IntV(c), IntV(c + 1) >>

\* Arc::clone and the drop of an Arc
arc_clone(h, c) == [h EXCEPT ![c].rc = @ + 1]
arc_drop(h, c) == IF h[c].rc = 1 THEN [h EXCEPT ![c] = FreeCell] ELSE [h EXCEPT ![c].rc = @ - 1]

RECURSIVE DropAll(_, _)
DropAll(h, stack) ==
    IF Len(stack) = 0 THEN h
    ELSE DropAll(IF IsRef(stack[1]) THEN arc_drop(h, stack[1].ref) ELSE h, Tail(stack))

\* A make_mut that takes every Arc for its only holder's.
make_mut_always_in_place(cell) == TRUE
\* Arc::make_mut appends in place exactly when the strong count is 1.
make_mut_is_unique(cell) == cell.rc = 1

\* A get_mut that hands out the list whoever else holds it.
get_mut_always_some(cell) == TRUE
\* Arc::get_mut is Some exactly when the strong count is 1.
get_mut_is_some(cell) == cell.rc = 1

\* The order in which Value::resolve visits the nodes of `a + b`: a, b, then
\* the addition.
RECURSIVE Postfix(_)
Postfix(expr) ==
    IF expr.e = "Call"
      THEN Postfix(expr.args[1]) \o Postfix(expr.args[2]) \o << expr >>
      ELSE << expr >>

Xs == Ident("xs")
ListOfTwo == ListExpr(<< Two >>)
\* Programs over the list variable xs: as the left and the right operand of
\* `+`, with a list literal, and with a name no context binds.
ConcPrograms ==
    { Xs, Call2("_+_", Xs, Xs), Call2("_+_", Xs, ListOfTwo), Call2("_+_", ListOfTwo, Xs),
      Call2("_+_", Call2("_+_", ListOfTwo, Xs), Xs),
      Call2("_+_", Xs, Call2("_+_", ListOfTwo, ListOfTwo)),
      Call2("_+_", Xs, Ident("y")) }

\* The context of execution t: xs is a clone of the list in cell c.
ThreadContext(c) ==
    add_variable_from_value(RootContext(NoVariables, FALSE, "inserted"), "xs", Ref(c))

Thread(c) ==
    [ctx |-> ThreadContext(c), ip |-> 1, stack |-> << >>, phase |-> "resolve",
     allocs |-> 0, result |-> NoOutcome]

InitConc ==
    /\ pc = "concurrent"
    /\ context = RootContext(NoVariables, FALSE, "inserted")
    /\ program \in ConcPrograms
    /\ outcome = NoOutcome
    /\ loop = NoLoop
    /\ before = context
    /\ \E shared \in BOOLEAN :
          LET cell(t) == IF shared THEN 1 ELSE t
          IN  /\ threads = [t \in Threads |-> Thread(cell(t))]
              /\ heap = [c \in Cells |->
                           LET holders == Cardinality({t \in Threads : cell(t) = c})
                           IN  IF holders > 0 THEN ArcCell(InitialItems(c), holders)
                                              ELSE FreeCell]

Code == Postfix(program)
Running(t) == threads[t].result = NoOutcome /\ threads[t].ip <= Len(Code)
Node(t) == Code[threads[t].ip]
Top(t, k) == threads[t].stack[Len(threads[t].stack) - k]
Pop(stack, n) == SubSeq(stack, 1, Len(stack) - n)

\* Expr::Ident: get_variable clones the binding (one more holder of its
\* list); an undeclared name ends the execution with the error, and the
\* operands evaluated so far are dropped.
Load(t, found) ==
    IF IsOk(found)
      THEN /\ threads' = [threads EXCEPT ![t].stack = Append(@, found.v), ![t].ip = @ + 1]
           /\ heap' = IF IsRef(found.v) THEN arc_clone(heap, found.v.ref) ELSE heap
      ELSE /\ threads' = [threads EXCEPT ![t].stack = << >>, ![t].result = found]
           /\ heap' = DropAll(heap, threads[t].stack)

ResolveIdent(t) ==
    /\ Running(t)
    /\ Node(t).e = "Ident"
    /\ Load(t, get_variable(threads[t].ctx, Node(t).name))
    /\ UNCHANGED << pc, context, program, outcome, loop, before >>

\* Expr::List of literals: a new list, held by the execution alone
ResolveList(t) ==
    /\ Running(t)
    /\ Node(t).e = "List"
    /\ LET c == NewCell(t, threads[t].allocs)
       IN  /\ heap' = [heap EXCEPT
                         ![c] = ArcCell([i \in 1 .. Len(Node(t).elements) |->
                                            Node(t).elements[i].val], 1)]
           /\ threads' = [threads EXCEPT ![t].stack = Append(@, Ref(c)),
                                         ![t].allocs = @ + 1, ![t].ip = @ + 1]
    /\ UNCHANGED << pc, context, program, outcome, loop, before >>

\* List + List, Arc::make_mut(&mut l): the test of the strong count
AddMakeMut(t) ==
    /\ Running(t)
    /\ Node(t).e = "Call"
    /\ threads[t].phase = "resolve"
    /\ threads' = [threads EXCEPT
                     ![t].phase = IF make_mut_is_unique(heap[Top(t, 1).ref])
                                    THEN "append" ELSE "clone"]
    /\ UNCHANGED << pc, context, program, outcome, loop, before, heap >>

\* Arc::make_mut on a shared list: l becomes a copy, the shared list loses
\* one holder.
AddClone(t) ==
    /\ Running(t)
    /\ threads[t].phase = "clone"
    /\ LET c == NewCell(t, threads[t].allocs)
           l == Top(t, 1).ref
       IN  /\ heap' = arc_drop([heap EXCEPT ![c] = ArcCell(heap[l].items, 1)], l)
           /\ threads' = [threads EXCEPT
                            ![t].stack = [@ EXCEPT ![Len(@) - 1] = Ref(c)],
                            ![t].allocs = @ + 1, ![t].phase = "append"]
    /\ UNCHANGED << pc, context, program, outcome, loop, before >>

\* l.append(r) when Arc::get_mut(&mut r) is Some, l.extend(r.iter().cloned())
\* when it is not; then r is dropped.
AddAppend(t) ==
    /\ Running(t)
    /\ threads[t].phase = "append"
    /\ LET l == Top(t, 1).ref
           r == Top(t, 0).ref
           appended == [heap EXCEPT ![l].items = @ \o heap[r].items]
       IN  /\ heap' = IF get_mut_is_some(heap[r])
                        THEN [appended EXCEPT ![r] = FreeCell]
                        ELSE arc_drop(appended, r)
           /\ threads' = [threads EXCEPT ![t].stack = Append(Pop(@, 2), Ref(l)),
                                         ![t].phase = "resolve", ![t].ip = @ + 1]
    /\ UNCHANGED << pc, context, program, outcome, loop, before >>

\* Program::execute returns the value the evaluation ended with.
Return(t) ==
    /\ threads[t].result = NoOutcome
    /\ threads[t].ip > Len(Code)
    /\ threads' = [threads EXCEPT ![t].result = Ok(Top(t, 0)), ![t].stack = << >>]
    /\ UNCHANGED << pc, context, program, outcome, loop, before, heap >>

NextConc ==
    \E t \in Threads :
        \/ ResolveIdent(t)
        \/ ResolveList(t)
        \/ AddMakeMut(t)
        \/ AddClone(t)
        \/ AddAppend(t)
        \/ Return(t)

SpecConc == InitConc /\ [][NextConc]_vars

\* The value behind a handle.
Deref(e) == IF IsRef(e) THEN ListV(0, heap[e.ref].items) ELSE e

\* The context of execution t as values, as it was when the executions began.
SoloContext(t) ==
    LET c == threads[t].ctx.scopes[1]["xs"][1].ref
    IN  add_variable_from_value(RootContext(NoVariables, FALSE, "inserted"),
                                "xs", ListV(c, InitialItems(c)))

\* The outcome of the program executed alone in the context of execution t,
\* without the identity of the list it returns.
Alone(t) ==
    LET r == execute(program, SoloContext(t))
    IN  IF IsOk(r) /\ r.v.t = "List" THEN Ok(ListV(0, r.v.items)) ELSE r

\* The outcome execution t has returned.
Returned(t) ==
    IF IsOk(threads[t].result) THEN Ok(Deref(threads[t].result.v)) ELSE threads[t].result

\* C10: every execution that has returned has the outcome of the program run
\* alone in its context, whatever the other executions did in between; the
\* list each context holds has the contents it began with; and no step
\* changes the program.
C10_ConcurrentExecutionsAreIndependent ==
    /\ [](\A t \in Threads :
            /\ threads[t].result # NoOutcome => Returned(t) = Alone(t)
            /\ Deref(threads[t].ctx.scopes[1]["xs"][1])
                  = ListV(0, InitialItems(threads[t].ctx.scopes[1]["xs"][1].ref)))
    /\ [][program' = program /\ \A t \in Threads : threads'[t].ctx = threads[t].ctx]_vars

\* Two executions of xs + [2] whose contexts hold one list have both
\* returned.
C10_Witness ==
    /\ pc = "concurrent"
    /\ program = Call2("_+_", Xs, ListOfTwo)
    /\ \A t \in Threads : threads[t].ctx.scopes[1]["xs"] = Some(Ref(1))
    /\ \A t \in Threads : Returned(t) = Ok(ListV(0, InitialItems(1) \o << IntV(2) >>))

-----------------------------------------------------------------------------
(* Properties of indexing and of map keys *)

KeyKinds == {"Int", "Bool", "String"}

\* The entries of a map stored under `key`.
Stored(m, key) == { i \in 1 .. Len(m.entries) : m.entries[i].key = key }

\* C11: xs[i] on a list and an Int is the element at position i when
\* 0 <= i < length and Null otherwise (a negative i included); m[k] on a map
\* and an Int, Bool or String key is the value stored under k when k is
\* present and Null otherwise; neither is an error.
C11_IndexIsElementOrNull ==
    /\ (Ran({"_[_]"}) /\ Lhs.t = "List" /\ Rhs.t = "Int") =>
           outcome = Ok(IF 0 <= Rhs.i /\ Rhs.i < Len(Lhs.items)
                          THEN Lhs.items[Rhs.i + 1] ELSE NullV)
    /\ (Ran({"_[_]"}) /\ Lhs.t = "Map" /\ Rhs.t \in KeyKinds) =>
           /\ Stored(Lhs, Rhs) = {} => outcome = Ok(NullV)
           /\ \A i \in Stored(Lhs, Rhs) : outcome = Ok(Lhs.entries[i].val)

\* [1, 2][-1] has been evaluated: Null, not the last element.
C11_Witness ==
    /\ Ran({"_[_]"}) /\ Lhs = OneTwo /\ Rhs = IntV(-1)
    /\ outcome = Ok(NullV)

\* C12: s[i] on a string and an Int is a string of one character or Null, for
\* every Int (negative, beyond the end, the largest Int) and every string
\* (multi-byte characters included): never an error, never an abort, never a
\* string of another length.
C12_StringIndexIsCharOrNull ==
    (Ran({"_[_]"}) /\ Lhs.t = "String" /\ Rhs.t = "Int") =>
        \/ outcome = Ok(NullV)
        \/ /\ IsOk(outcome) /\ outcome.v.t = "String" /\ Len(outcome.v.s) = 1
           /\ \E k \in 1 .. Len(Lhs.s) : Lhs.s[k] = outcome.v.s[1]

RECURSIVE KeysAreKeys(_)
\* Every key of every map inside v is an Int, a Bool or a String.
KeysAreKeys(v) ==
    CASE v.t = "Map" ->
            \A i \in 1 .. Len(v.entries) :
                v.entries[i].key.t \in KeyKinds /\ KeysAreKeys(v.entries[i].val)
      [] v.t = "List" -> \A i \in 1 .. Len(v.items) : KeysAreKeys(v.items[i])
      [] OTHER -> TRUE

\* C13: a value that is not an Int, a Bool or a String is never a map key:
\* the literal {lhs: 1, rhs: 2} fails with UnsupportedKeyType of the first such
\* key, indexing a map with such a value fails with UnsupportedMapIndex of
\* it, and every key of every map an evaluation returns is an Int, a Bool or
\* a String.
C13_OnlyKeysAreMapKeys ==
    /\ (pc = "done" /\ program = MapLiteral) =>
           IF Lhs.t \notin KeyKinds THEN outcome = Err(UnsupportedKeyType(Lhs))
           ELSE IF Rhs.t \notin KeyKinds THEN outcome = Err(UnsupportedKeyType(Rhs))
           ELSE /\ IsOk(outcome) /\ outcome.v.t = "Map"
                /\ { outcome.v.entries[i].key : i \in 1 .. Len(outcome.v.entries) } = {Lhs, Rhs}
    /\ (Ran({"_[_]"}) /\ Lhs.t = "Map" /\ Rhs.t \notin KeyKinds) =>
           outcome = Err(UnsupportedMapIndex(Rhs))
    /\ (pc = "done" /\ IsOk(outcome)) => KeysAreKeys(outcome.v)

\* {null: 1, rhs: 2} has failed with UnsupportedKeyType(Null).
C13_Witness ==
    /\ pc = "done" /\ program = MapLiteral /\ Lhs = NullV
    /\ outcome = Err(UnsupportedKeyType(NullV))

\* has(lhs.f) has been executed, f the text of the string rhs.
RanHas == pc = "done" /\ Rhs.t = "String" /\ program = Select(Ident("lhs"), Rhs.s, TRUE)

\* C14 as it is stated: has(m.k) is true exactly when k is a present key of
\* the map m (a key that prints as k) and the value stored under it is not
\* Null.
C14_HasIsPresentAndNotNull ==
    (RanHas /\ Lhs.t = "Map") =>
        outcome = Ok(BoolV(\E i \in 1 .. Len(Lhs.entries) :
                              /\ KeyToString(Lhs.entries[i].key) = Rhs.s
                              /\ Lhs.entries[i].val # NullV))

\* C14, amended: has(m.k) is true exactly when m has a key that prints as k,
\* whatever is stored under it, Null included: true when the String k is a
\* key, true for "1" when the Int 1 is a key, false when every key of m is a
\* String other than k; on an operand that is not a map it is false.
C14_HasIsKeyPresence ==
    /\ (RanHas /\ Lhs.t = "Map") =>
           /\ Stored(Lhs, Rhs) # {} => outcome = Ok(BoolV(TRUE))
           /\ (Rhs.s = StrOne /\ Stored(Lhs, IntV(1)) # {}) => outcome = Ok(BoolV(TRUE))
           /\ (\A i \in 1 .. Len(Lhs.entries) :
                   Lhs.entries[i].key.t = "String" /\ Lhs.entries[i].key # Rhs)
                 => outcome = Ok(BoolV(FALSE))
           /\ outcome \in {Ok(BoolV(TRUE)), Ok(BoolV(FALSE))}
    /\ (RanHas /\ Lhs.t # "Map") => outcome = Ok(BoolV(FALSE))

\* has(m.a) has answered true on a map that stores Null under "a".
C14_Witness ==
    /\ RanHas /\ Lhs = KeyedMap /\ Rhs = StringV(StrA)
    /\ Index(Lhs, Rhs, FALSE) = Ok(NullV)
    /\ outcome = Ok(BoolV(TRUE))

-----------------------------------------------------------------------------
(* Properties of the comprehensions *)

IdentityPrograms == { Identity(name) : name \in {"map", "filter"} }
ComparedPrograms == { Call2("_==_", q, Ident("lhs")) : q \in IdentityPrograms }

\* C15 as it is stated: for every list xs, xs.map(v, v) == xs and
\* xs.filter(v, true) == xs evaluate to true.
C15_MapFilterIdentityIsTrue ==
    (pc = "done" /\ program \in ComparedPrograms /\ Lhs.t = "List") =>
        outcome = Ok(BoolV(TRUE))

\* C15, amended: xs.map(v, v) and xs.filter(v, true) return a list of the
\* elements of xs, as many and in their order; compared with xs the answer is
\* true exactly when every element of xs is equal to itself, and false for a
\* list that holds a Float NaN.
C15_MapFilterPreserve ==
    /\ (pc = "done" /\ program \in IdentityPrograms /\ Lhs.t = "List") =>
           outcome = Ok(ListV(0, Lhs.items))
    /\ (pc = "done" /\ program \in ComparedPrograms /\ Lhs.t = "List") =>
           /\ outcome =
                 Ok(BoolV(\A i \in 1 .. Len(Lhs.items) : ValueEq(Lhs.items[i], Lhs.items[i])))
           /\ (\E i \in 1 .. Len(Lhs.items) : Lhs.items[i] = NaN) => outcome = Ok(BoolV(FALSE))

\* [1, 2].map(x, x) == [1, 2] has been evaluated to true.
C15_Witness ==
    /\ pc = "done" /\ program = Call2("_==_", Identity("map"), Ident("lhs"))
    /\ Lhs = OneTwo
    /\ outcome = Ok(BoolV(TRUE))

\* The predicate p is a Bool, without error, on the element `item` of lhs.
IsBoolOn(r) == IsOk(r) /\ r.v.t = "Bool"
TotalBool(p) ==
    \A i \in 1 .. Len(Lhs.items) :
        IsBoolOn(Resolve(p, add_variable_from_value(new_inner_scope(context), "x", Lhs.items[i])))

\* C16: for a list xs and a predicate p that is a Bool without error on each
\* element of xs, xs.all(v, p) == !xs.any(v, !p) is true; on the empty list
\* all is true and any is false.
C16_AllIsNotAnyNot ==
    \A p \in Predicates :
        (pc = "done" /\ program = AllIsNotAnyNot(p) /\ Lhs.t = "List" /\ TotalBool(p)) =>
            /\ outcome = Ok(BoolV(TRUE))
            /\ Len(Lhs.items) = 0 =>
                  /\ Resolve(all_macro(Ident("lhs"), "x", p), context) = Ok(BoolV(TRUE))
                  /\ Resolve(any_macro(Ident("lhs"), "x", p), context) = Ok(BoolV(FALSE))

\* [true, false, true].all(x, x) == ![true, false, true].any(x, !x) has been
\* evaluated: both sides are false.
C16_Witness ==
    /\ pc = "done" /\ program = AllIsNotAnyNot(X) /\ Lhs = TrueFalse
    /\ TotalBool(X)
    /\ Resolve(all_macro(Ident("lhs"), "x", X), context) = Ok(BoolV(FALSE))
    /\ outcome = Ok(BoolV(TRUE))

\* The outcome r is a value that is neither a list nor a map.
NonIterable(r) == IsOk(r) /\ r.v.t \notin {"List", "Map"}

\* C18: a comprehension whose iter_range evaluates to a value that is
\* neither a list nor a map (an Int receiver of map, filter, all or any)
\* returns an ExecutionError to the caller.
C18_NonIterableIsError ==
    (/\ pc = "done" /\ program.e = "Comprehension"
     /\ IsOk(Resolve(program.accu_init, before))
     /\ NonIterable(Resolve(program.iter_range, before))) => outcome.k = "err"

-----------------------------------------------------------------------------
(* Compilation: the macro rewriter (parser/macros.rs) on a parsed call, and  *)
(* the reference analysis (parser/references.rs) of the compiled expression *)

ParseError(msg) == [k |-> "parse_error", msg |-> msg]
Compiled(expr) == [k |-> "program", expr |-> expr]

\* fn find_expander: the macro a call is, by its name, its receiver and the
\* number of its arguments.
find_expander(func_name, target, args) ==
    CASE func_name = "has" /\ Len(args) = 1 /\ ~IsSome(target) -> Some("has")
      [] func_name = "any" /\ Len(args) = 2 /\ IsSome(target) -> Some("any")
      [] func_name = "all" /\ Len(args) = 2 /\ IsSome(target) -> Some("all")
      [] func_name = "map" /\ Len(args) = 2 /\ IsSome(target) -> Some("map")
      [] func_name = "filter" /\ Len(args) = 2 /\ IsSome(target) -> Some("filter")
      [] OTHER -> None

\* fn extract_ident
extract_ident(expr) ==
    IF expr.e = "Ident" THEN Compiled(expr.name)
                        ELSE ParseError("argument must be a simple name")

\* fn has_macro_expander
has_macro_expander(args) ==
    IF args[1].e = "Select" THEN Compiled(has_macro(args[1]))
                            ELSE ParseError("invalid argument to has() macro")

\* The expanders of all, any, map and filter: the first argument must be a
\* bare identifier, the second is the body.
IdentExtracted(v, name, target, body) ==
    IF v.k = "parse_error" THEN v ELSE Compiled(Expand(name, target, v.expr, body))

comprehension_expander(name, target, args) ==
    IdentExtracted(extract_ident(args[1]), name, Unwrap(target), args[2])

\* The rewriter on a call node: a call that is a macro becomes what its
\* expander returns, any other call is left as it is.
expand_call(call) ==
    LET expander == find_expander(call.func_name, call.target, call.args)
    IN  IF ~IsSome(expander) THEN Compiled(call)
        ELSE IF Unwrap(expander) = "has" THEN has_macro_expander(call.args)
        ELSE comprehension_expander(Unwrap(expander), call.target, call.args)

\* name.starts_with('@'), on the names the model uses
StartsWithAt(name) == name \in {"@result", "@not_strictly_false"}

\* The parts of an expression that _references descends into.
Children(expr) ==
    CASE expr.e = "Call" -> expr.target \o expr.args
      [] expr.e = "Comprehension" ->
            << expr.iter_range, expr.accu_init, expr.loop_cond, expr.loop_step, expr.result >>
      [] expr.e = "List" -> expr.elements
      [] expr.e = "Map" ->
            [i \in 1 .. 2 * Len(expr.entries) |->
                IF i % 2 = 1 THEN expr.entries[(i + 1) \div 2].key
                             ELSE expr.entries[i \div 2].value]
      [] expr.e = "Select" -> << expr.operand >>
      [] OTHER -> << >>

\* A reference analysis that reports every identifier, synthetic or not.
RECURSIVE VariablesUnfiltered(_)
VariablesUnfiltered(expr) ==
    IF expr.e = "Ident" THEN {expr.name}
    ELSE UNION { VariablesUnfiltered(Children(expr)[i]) : i \in 1 .. Len(Children(expr)) }
\* IdedExpr::_references, the variables
RECURSIVE Variables(_)
Variables(expr) ==
    IF expr.e = "Ident"
      THEN (IF StartsWithAt(expr.name) THEN {} ELSE {expr.name})
      ELSE UNION { Variables(Children(expr)[i]) : i \in 1 .. Len(Children(expr)) }

\* IdedExpr::_references, the functions
RECURSIVE Functions(_)
Functions(expr) ==
    (IF expr.e = "Call" THEN {expr.func_name} ELSE {})
    \cup UNION { Functions(Children(expr)[i]) : i \in 1 .. Len(Children(expr)) }

\* IdedExpr::references
references(expr) ==
    [k |-> "references", expr |-> expr,
     variables |-> Variables(expr), functions |-> Functions(expr)]

Y == Ident("y")
\* [1, 1].map(x, x * 2), before it is rewritten
MapDouble ==
    Method("map", ListExpr(<< One, One >>), << X, Call2("_*_", X, Two) >>)

MacroNames == {"all", "any", "map", "filter"}

\* Receivers, first arguments and bodies of the calls the parser hands to the
\* rewriter.  The arguments of a call are rewritten before the call is, so
\* a receiver can be a comprehension already.
Receivers == { Ident("xs"), Ident("m"), ListExpr(<< One, Two >>), map_macro(Ident("xs"), "y", Y) }
FirstArguments == { X, Y, One, MX }
SecondArguments ==
    { X, Y, True, Ident(AccuVar), Call2("_>_", X, Y), map_macro(X, "y", Call2("_+_", X, Y)) }

\* Calls as the parser builds them: the macros with the shape the rewriter
\* looks for and without it (no receiver, one argument), has on a select and
\* on other arguments, and calls that are no macros.
SourceCalls ==
    { Method(name, t, << v, b >>) :
        name \in MacroNames \cup {"contains"}, t \in Receivers,
        v \in FirstArguments, b \in SecondArguments }
    \cup { Method(name, t, << v >>) : name \in MacroNames \cup {"has"}, t \in Receivers,
                                     v \in FirstArguments }
    \cup { Call(name, None, << v, b >>) : name \in MacroNames, v \in FirstArguments,
                                         b \in SecondArguments }
    \cup { Call1("has", v) : v \in FirstArguments }
    \cup { MapDouble, Call2("_+_", X, Y) }

InitParse ==
    /\ pc = "parsed"
    /\ context = RootContext(NoVariables, FALSE, "inserted")
    /\ program \in SourceCalls
    /\ outcome = NoOutcome
    /\ loop = NoLoop
    /\ before = context
    /\ heap = << >>
    /\ threads = << >>

\* Program::compile, from the parsed call on: the program, or the error of
\* the rewriter
Compile ==
    /\ pc = "parsed"
    /\ outcome' = expand_call(program)
    /\ pc' = "compiled"
    /\ UNCHANGED << context, program, loop, before >>
    /\ UNCHANGED conc

\* Program::references on the compiled program
ProgramReferences ==
    /\ pc = "compiled"
    /\ outcome.k = "program"
    /\ outcome' = references(outcome.expr)
    /\ pc' = "analysed"
    /\ UNCHANGED << context, program, loop, before >>
    /\ UNCHANGED conc

NextParse == Compile \/ ProgramReferences

SpecParse == InitParse /\ [][NextParse]_vars

\* The names the comprehensions inside an expression bind.
RECURSIVE BoundNames(_)
BoundNames(expr) ==
    (IF expr.e = "Comprehension" THEN {expr.iter_var, expr.accu_var} ELSE {})
    \cup UNION { BoundNames(Children(expr)[i]) : i \in 1 .. Len(Children(expr)) }

RECURSIVE AccumulatorNames(_)
AccumulatorNames(expr) ==
    (IF expr.e = "Comprehension" THEN {expr.accu_var} ELSE {})
    \cup UNION { AccumulatorNames(Children(expr)[i]) : i \in 1 .. Len(Children(expr)) }

\* C17 as it is stated: references().variables has no name that a
\* comprehension of the program binds, neither an iteration variable nor an
\* accumulator.
C17_NoBoundNameIsReferenced ==
    pc = "analysed" => outcome.variables \cap BoundNames(outcome.expr) = {}

\* The call is t.M(v, ...) with a macro M and the bare identifier v.
IsMacroCall ==
    /\ IsSome(find_expander(program.func_name, program.target, program.args))
    /\ program.func_name # "has"
    /\ program.args[1].e = "Ident"

\* C17, amended: references().variables has no name that begins with '@',
\* so no accumulator name; an iteration variable is reported like any other
\* identifier when the program mentions it: when the body of t.M(v, e) is v
\* itself v is among the variables, and [1, 1].map(x, x * 2) has the
\* variables {x}.
C17_NoAccumulatorIsReferenced ==
    pc = "analysed" =>
        /\ \A n \in outcome.variables : ~StartsWithAt(n)
        /\ outcome.variables \cap AccumulatorNames(outcome.expr) = {}
        /\ (IsMacroCall /\ program.args[2] = program.args[1]) =>
               program.args[1].name \in outcome.variables
        /\ program = MapDouble => outcome.variables = {"x"}

\* The references of [1, 1].map(x, x * 2) have been computed: x, and not
\* @result, which the rewritten program mentions.
C17_Witness ==
    /\ pc = "analysed" /\ program = MapDouble
    /\ AccuVar \in VariablesUnfiltered(outcome.expr)
    /\ outcome.variables = {"x"}

\* The accumulator as the rewritten programs mention it.
Result == Ident("@result")

\* The Comprehension that t.M(v, e) stands for: what differs between the
\* macros is the accumulator's first value, the loop condition and the step.
Lowered(t, v, accu_init, loop_cond, loop_step) ==
    [e |-> "Comprehension", iter_range |-> t, iter_var |-> v, accu_var |-> "@result",
     accu_init |-> accu_init, loop_cond |-> loop_cond, loop_step |-> loop_step,
     result |-> Result]

\* C19: t.M(v, e) with a receiver t and a bare identifier v is rewritten to a
\* Comprehension over t that binds v, with accumulator and result @result and
\*   all:    true, @not_strictly_false(@result),  @result && e
\*   any:    false, @not_strictly_false(!@result), @result || e
\*   map:    [], true, @result + [e]
\*   filter: [], true, e ? @result + [v] : @result
\* and has(x.f) to the Select x.f with test = true.
C19_MacrosLowerToComprehensions ==
    /\ (pc = "compiled" /\ IsMacroCall) =>
           LET t == Unwrap(program.target)
               v == program.args[1].name
               body == program.args[2]
               name == program.func_name
           IN  outcome.k = "program" /\ outcome.expr =
                 CASE name = "all" ->
                        Lowered(t, v, True, Call1("@not_strictly_false", Result),
                                Call2("_&&_", Result, body))
                   [] name = "any" ->
                        Lowered(t, v, False,
                                Call1("@not_strictly_false", Call1("!_", Result)),
                                Call2("_||_", Result, body))
                   [] name = "map" ->
                        Lowered(t, v, ListExpr(<< >>), True,
                                Call2("_+_", Result, ListExpr(<< body >>)))
                   [] OTHER ->
                        Lowered(t, v, ListExpr(<< >>), True,
                                Call3("_?_:_", body,
                                      Call2("_+_", Result, ListExpr(<< Ident(v) >>)),
                                      Result))
    /\ (pc = "compiled" /\ program = Call1("has", MX)) =>
           outcome = Compiled([e |-> "Select", operand |-> Ident("m"), field |-> StrX,
                               test |-> TRUE])

\* xs.filter(x, x > y) has been rewritten.
C19_Witness ==
    /\ pc = "compiled"
    /\ program = Method("filter", Ident("xs"), << X, Call2("_>_", X, Y) >>)
    /\ outcome.k = "program" /\ outcome.expr.e = "Comprehension"
    /\ outcome.expr.loop_step.func_name = "_?_:_"

-----------------------------------------------------------------------------
(* Dispatch of calls: the operators and the function registry *)

\* The names Value::resolve matches before it looks a call up in the registry.
ReservedOperators ==
    { "_?_:_", "_+_", "_-_", "_/_", "_*_", "_%_", "_==_", "_!=_", "_<_", "_<=_", "_>_",
      "_>=_", "_||_", "_&&_", "_[_]", "!_", "-_", "@not_strictly_false" }

\* Names a host registers a function under: operator names, a name of its own
\* and the name of a builtin.
UserNames == { "_+_", "_?_:_", "!_", "_[_]", "f", "length" }

\* Arguments of the calls: none to three.
ArgLists ==
    { << >>, << One >>, << True >>, << One, One >>, << True, One >>, << True, True >>,
      << One, One, One >>, << True, One, Two >> }

\* Calls of every operator name, of the host's name f, of a builtin and of a
\* name nobody registers, with every argument list.
DispatchPrograms ==
    { Call(name, None, args) :
        name \in ReservedOperators \cup {"f", "g", "length"}, args \in ArgLists }
    \cup { Method(name, One, args) : name \in {"_+_", "f", "g"}, args \in ArgLists }

InitDispatch ==
    /\ pc = "setup"
    /\ context \in { RootContext(NoVariables, oc, "inserted") : oc \in BOOLEAN }
    /\ program = NoProgram
    /\ outcome = NoOutcome
    /\ loop = NoLoop
    /\ before = context
    /\ heap = << >>
    /\ threads = << >>

\* The last call the host made was add_function(name, ...).
Added(name) == [k |-> "added", name |-> name]

\* Context::add_function by the host, on the context it holds (the root or a
\* child), before it runs a program
AddFunction(name) ==
    /\ pc = "setup"
    /\ context' = add_function(context, name, HostFunction)
    /\ before' = context'
    /\ outcome' = Added(name)
    /\ UNCHANGED << pc, program, loop >>
    /\ UNCHANGED conc

NextDispatch ==
    \/ \E name \in UserNames : AddFunction(name)
    \/ NewInnerScope
    \/ \E p \in DispatchPrograms : Execute(p)

SpecDispatch == InitDispatch /\ [][NextDispatch]_vars

\* C20: a call whose name is a reserved operator name never reaches the
\* function registry, whatever the number of its arguments: a function the
\* host registered under such a name is never invoked; and a call of a name
\* that is neither reserved nor registered fails with
\* UndeclaredReference(name).
C20_ReservedNamesNeverDispatched ==
    (pc = "done" /\ program.e = "Call") =>
        /\ program.func_name \in ReservedOperators => outcome # Ok(UserValue)
        /\ (/\ program.func_name \notin ReservedOperators
            /\ ~IsSome(get_function(context, program.func_name)))
              => outcome = Err(UndeclaredReference(program.func_name))

-----------------------------------------------------------------------------
(* Properties of timestamp arithmetic *)

\* A timestamp and a duration have been added, in either order, or the
\* duration subtracted from the timestamp.
RanTimestampOp ==
    \/ Ran({"_+_", "_-_"}) /\ Lhs.t = "Timestamp" /\ Rhs.t = "Duration"
    \/ Ran({"_+_"}) /\ Lhs.t = "Duration" /\ Rhs.t = "Timestamp"

\* The exact result, in years.
ExactTimestamp ==
    IF Lhs.t = "Duration" THEN Rhs.ts + Lhs.d
    ELSE IF program.func_name = "_+_" THEN Lhs.ts + Rhs.d
    ELSE Lhs.ts - Rhs.d

\* C21: timestamp arithmetic (Timestamp + Duration, Duration + Timestamp,
\* Timestamp - Duration) yields the exact timestamp when it lies within
\* [MIN_TIMESTAMP, MAX_TIMESTAMP] and fails with Overflow when it does not,
\* in either operand order: no Timestamp outside the bounds is produced.
C21_TimestampsStayInRange ==
    RanTimestampOp =>
        IF ExactTimestamp >= MIN_TIMESTAMP /\ ExactTimestamp <= MAX_TIMESTAMP
          THEN outcome = Ok(TimestampV(ExactTimestamp))
          ELSE outcome.k = "err" /\ outcome.e.kind = "Overflow"

-----------------------------------------------------------------------------
(* Properties of the function registry *)

\* The context the host held when the chain was d scopes deep.
AtDepth(ctx, d) == [ctx EXCEPT !.scopes = SubSeq(@, 1, d)]

\* The names looked up: the host's, the builtins and one nobody registers.
LookedUp == UserNames \cup DefaultFunctions \cup {"g"}

\* What each name resolves to from each scope of the chain.
Resolutions(ctx) ==
    [d \in 1 .. Len(ctx.scopes), name \in LookedUp |-> get_function(AtDepth(ctx, d), name)]

\* C22: a function lookup from any scope of a chain returns the root's
\* registration for the name, and add_function called on a child scope
\* changes nothing: every name resolves afterwards, from every scope, to what
\* it resolved to before the call.
C22_FunctionsLiveInTheRoot ==
    /\ [](\A d \in 1 .. Len(context.scopes), name \in LookedUp :
            get_function(AtDepth(context, d), name) = RegistryGet(context.functions, name))
    /\ [][(Len(context.scopes) > 1 /\ \E name \in UserNames : AddFunction(name))
             => Resolutions(context') = Resolutions(context)]_vars

\* add_function("f", f) has been called on a
\* child: length is still the builtin and f is still unknown, from the child
\* as from the root.
C22_Witness ==
    /\ pc = "setup" /\ Len(context.scopes) = 2
    /\ outcome = Added("f")
    /\ get_function(context, "length") = Some("length")
    /\ get_function(context, "f") = None
    /\ get_function(AtDepth(context, 1), "f") = None

-----------------------------------------------------------------------------
(* Properties of all and any *)

\* A predicate has a value that is not a Bool.
NonBool == [k |-> "non-bool"]

\* The outcome of the predicate p on an element, x bound to it.
PredicateOn(p, item, ctx) ==
    Resolve(p, add_variable_from_value(new_inner_scope(ctx), "x", item))

\* all and any as the claim reads them: the predicate on the elements in
\* order up to the first one that decides (false for all, true for any); an
\* error on the way is the outcome; nothing after the deciding element is
\* looked at.  `r` is the outcome of the predicate on items[i].
RECURSIVE Scan(_, _, _, _, _)
Scanned(r, name, p, items, i, ctx) ==
    IF ~IsOk(r) THEN r
    ELSE IF r.v.t # "Bool" THEN NonBool
    ELSE IF r.v.b = (name = "any") THEN Ok(BoolV(name = "any"))
    ELSE Scan(name, p, items, i + 1, ctx)

Scan(name, p, items, i, ctx) ==
    IF i > Len(items)
      THEN Ok(BoolV(name = "all"))
      ELSE Scanned(PredicateOn(p, items[i], ctx), name, p, items, i, ctx)

\* C23: xs.all(x, p) and xs.any(x, p) over a list evaluate p on the elements
\* in order and on none after the first deciding one (p false for all, p true
\* for any), and the result is then false, respectively true; an error of p on
\* a later element does not occur, an error before the deciding element is the
\* outcome.  (p Bool or failing on the elements it is evaluated on.)
C23_AllAnyStopAtTheDecidingElement ==
    \A name \in {"all", "any"}, p \in Predicates :
        (/\ pc = "done"
         /\ program = Expand(name, Ident("lhs"), "x", p)
         /\ Lhs.t = "List"
         /\ Scan(name, p, Lhs.items, 1, context) # NonBool)
            => outcome = Scan(name, p, Lhs.items, 1, context)

\* [2, true].any(x, x > 1) is true: `true > 1` is never evaluated; and
\* [2, true].all(x, x > 1) fails on it.
C23_Witness ==
    /\ pc = "done"
    /\ Lhs = TwoTrue /\ Rhs = IntV(1)
    /\ program = any_macro(Ident("lhs"), "x", Call2("_>_", X, Ident("rhs")))
    /\ outcome = Ok(BoolV(TRUE))
    /\ Resolve(all_macro(Ident("lhs"), "x", Call2("_>_", X, Ident("rhs"))), context)
          = Err(ValuesNotComparable(BoolV(TRUE), IntV(1)))

\* C28: a successful t.all(x, p) or t.any(x, p) over a list or a map yields
\* a Bool, whatever the type of p: the accumulator never ends the
\* comprehension with a value that is not a Bool.
C28_AllAnyYieldBool ==
    \A name \in {"all", "any"}, r \in Ranges, p \in Bodies :
        (pc = "done" /\ program = Expand(name, r, "x", p) /\ IsOk(outcome))
            => outcome.v.t = "Bool"

-----------------------------------------------------------------------------
(* Properties of the unary minus *)

\* The float -f.
Negated(f) ==
    CASE f.c = "nan" -> NaN
      [] f.c = "inf" -> NegInf
      [] f.c = "ninf" -> PosInf
      [] OTHER -> Fin(0 - f.n)

\* C24: -v is Int(-i) for v = Int(i) when -i is an i64 and an Overflow error
\* when it is not (i the minimum Int), never a wrapped result and never an
\* abort; the negated float for a Float; UnsupportedUnaryOperator for any
\* other variant.
C24_NegationIsChecked ==
    (pc = "done" /\ program = Call1("-_", Ident("lhs"))) =>
        CASE Lhs.t = "Int" ->
                IF -Lhs.i \in Ints THEN outcome = Ok(IntV(-Lhs.i))
                                   ELSE outcome.k = "err" /\ outcome.e.kind = "Overflow"
          [] Lhs.t = "Float" -> outcome = Ok(Negated(Lhs))
          [] OTHER -> outcome = Err(UnsupportedUnaryOperator("minus", Lhs))

-----------------------------------------------------------------------------
(* Properties of indexing: the pairings without an element *)

\* lhs[rhs] has been executed on a pairing that is none of List[Int],
\* String[Int] and Map[...].
RanOtherIndex ==
    /\ Ran({"_[_]"})
    /\ ~(Lhs.t \in {"List", "String"} /\ Rhs.t = "Int")
    /\ Lhs.t # "Map"

-----------------------------------------------------------------------------
(* Properties of concatenation: copy-on-write *)

\* The handles an execution holds: its context's binding, the operands on its
\* stack and the value it returned.
Handles(t) ==
    << Unwrap(threads[t].ctx.scopes[1]["xs"]) >> \o threads[t].stack
       \o (IF IsOk(threads[t].result) THEN << threads[t].result.v >> ELSE << >>)

\* How many handles to cell c there are.
Holders(c) ==
    Cardinality({ << t, i >> \in Threads \X (1 .. (MaxAlloc + 3)) :
                    i <= Len(Handles(t)) /\ Handles(t)[i] = Ref(c) })

\* C26: `+` on lists never changes a value that is observable elsewhere.  A
\* step changes the contents of a list only when that list has one holder,
\* the operand of the `+` that is being evaluated (the in-place append and
\* the move out of the right operand); the list a context variable is bound
\* to keeps the contents it had, also when the variable is an operand of `+`;
\* and the strong count of a list is the number of its holders.
C26_ConcatenationCopiesOnWrite ==
    /\ [](\A c \in Cells : heap[c].rc = Holders(c))
    /\ [](\A t \in Threads :
            LET xs == Unwrap(threads[t].ctx.scopes[1]["xs"]).ref
            IN  heap[xs].rc > 0 /\ heap[xs].items = InitialItems(xs))
    /\ [][\A c \in Cells :
            (heap[c].rc > 0 /\ heap'[c].items # heap[c].items) =>
               /\ heap[c].rc = 1
               /\ \E t \in Threads : threads[t].phase = "append" /\ Ref(c) \in {Top(t, 0), Top(t, 1)}]_vars

\* xs + [2] has returned the longer list, built in a copy (the literal and
\* the copy are the two allocations), and the list xs is bound to is as it was.
C26_Witness ==
    /\ program = Call2("_+_", Xs, ListOfTwo)
    /\ \E t \in Threads :
          LET xs == Unwrap(threads[t].ctx.scopes[1]["xs"]).ref
          IN  /\ IsOk(threads[t].result)
              /\ threads[t].result.v # Ref(xs)
              /\ Deref(threads[t].result.v).items = InitialItems(xs) \o << IntV(2) >>
              /\ threads[t].allocs = 2
              /\ heap[xs].items = InitialItems(xs)

-----------------------------------------------------------------------------
(* Properties of contains on bytes *)

\* a occurs in b as a run of consecutive bytes.
Occurs(a, b) ==
    \E at \in 0 .. Len(b) : at + Len(a) <= Len(b) /\ \A j \in 1 .. Len(a) : b[at + j] = a[j]

\* C27: for a bytes value b, b.contains(a) is the Bool that tells whether
\* the bytes a occur in b as a contiguous run, for every a, the empty one
\* included (which occurs in every b); it is false for an argument that is
\* not bytes; it never aborts.
C27_BytesContains ==
    (/\ pc = "done"
     /\ program = Method("contains", Ident("lhs"), << Ident("rhs") >>)
     /\ Lhs.t = "Bytes")
        => outcome = Ok(BoolV(Rhs.t = "Bytes" /\ Occurs(Rhs.by, Lhs.by)))

-----------------------------------------------------------------------------
(* Properties of has and the field select together *)

\* C29: for a map m and a field f, has(m.f) is true exactly when m.f returns
\* a value and false exactly when m.f fails with NoSuchKey(f); and
\* has(m.f) && <use of m.f> never fails with NoSuchKey(f).
C29_HasGuardsSelect ==
    /\ (RanHas /\ Lhs.t = "Map") =>
          /\ outcome = Ok(BoolV(IsOk(Resolve(LhsField(Rhs.s), context))))
          /\ outcome = Ok(BoolV(Resolve(LhsField(Rhs.s), context) # Err(NoSuchKey(Rhs.s))))
    /\ (pc = "done" /\ Rhs.t = "String" /\ Lhs.t = "Map" /\ program = GuardedField(Rhs.s)) =>
          outcome # Err(NoSuchKey(Rhs.s))

-----------------------------------------------------------------------------
(* Properties of comprehensions over maps *)

\* The program is a comprehension whose range is a map in the context it
\* ran in.
RanOverMap ==
    /\ pc = "done" /\ program.e = "Comprehension"
    /\ IsOk(Resolve(program.iter_range, before))
    /\ Resolve(program.iter_range, before).v.t = "Map"

\* C30: the outcome of a comprehension over a map (all, any, map, filter),
\* value or error, is the same for every order in which the keys of the map
\* are visited: another evaluation of the expression in the same context,
\* whatever order the hasher gives its maps, has the same outcome.
C30_MapOrderDoesNotShow ==
    \A ho \in HashOrders :
        RanOverMap => outcome = Resolve(program, [before EXCEPT !.hash_order = ho])

=============================================================================
